---- MODULE Spec2Model ----
(***************************************************************************)
(* Model of the chat orchestrator of demo_chatbot_feature:                 *)
(*   app/agent/router.py            process_chat, fetch_restaurant_context  *)
(*   app/agent/memory.py            MemoryManager (three Redis keys)        *)
(*   app/agent/llm_client.py        get_completion, _validate_llm_response  *)
(*   app/agent/function_registry.py execute_function, get_handler           *)
(*                                                                         *)
(* Encodings.  Python None of an optional string is the string "None".     *)
(* An optional container (dict, list, a Redis key that may be absent) is a *)
(* sequence of length at most one: <<>> is None / absent, <<x>> is x.      *)
(* A dict is a function from its string keys; the empty dict is <<>>.      *)
(* A Python string that the code builds or inspects is a sequence of       *)
(* pieces: a user message is its sequence of characters (lower() and       *)
(* strip() work on them), an f-string is the sequence of its parts.        *)
(* Redis values are json.dumps of dicts/lists of JSON-native values, which *)
(* json.loads returns unchanged, so the stores hold the values themselves. *)
(***************************************************************************)
EXTENDS Integers, Sequences, FiniteSets, TLC

VARIABLES
    state_key,      \* chat:{session_id}:state    session_id -> optional state dict
    history_key,    \* chat:{session_id}:history  session_id -> optional list
    context_key,    \* chat:{session_id}:context  session_id -> optional dict
    access_token,   \* backend_client._access_token
    context_fn,     \* history variable: function_name the cached context was built for
    response,       \* the ChatResponse of the last processed message
    trace,          \* history variable: what the last process_chat call did
    nmsgs,          \* number of messages processed so far
    registry,       \* function_registry: its _functions and _handlers dicts
    ttl_key,        \* session_id -> seconds left before Redis drops each key
    tasks           \* the process_chat coroutines in flight on the event loop

vars == <<state_key, history_key, context_key, access_token, context_fn,
          response, trace, nmsgs, registry, ttl_key, tasks>>

----------------------------------------------------------------------------
\* Bounds of the model

MaxMessages == 2

SessionIds == {"s1"}
OtherSessionIds == {"s2"}
Uuids == {"u1", "u2", "u3"}

\* variant of generate_session_id that returns the bare uuid
generate_session_id_bare(uuid) == uuid

\* `f"session-{uuid.uuid4()}"`
generate_session_id(uuid) == "session-" \o uuid

GeneratedIds == {generate_session_id(uuid) : uuid \in Uuids}

\* the session ids Redis can hold keys for
StoreIds == SessionIds \cup OtherSessionIds \cup GeneratedIds

\* settings.session_ttl, in seconds
session_ttl == 3600

\* no key of the session exists; `expired` remembers the records whose key
\* was last removed by Redis on its own rather than by a delete
NoKeys == [state |-> 0, history |-> 0, context |-> 0, expired |-> {}]

TaskIds == {"a", "b"}
NoTasks == [t \in TaskIds |-> [pc |-> "idle"]]
RestaurantIds == {1, 2}

----------------------------------------------------------------------------
\* Encodings

None == "None"
Null == <<>>
Some(x) == <<x>>
EmptyDict == <<>>

\* Python `x or {}` / `x or []` for an optional container x
OrEmpty(x) == IF x = Null THEN <<>> ELSE x[1]

\* dict.get(key, default) for a key whose value is an optional container
GetOpt(d, key, default) == IF key \in DOMAIN d THEN d[key] ELSE Some(default)

\* dict.get(key, default) for a key whose value is an optional string
GetStr(d, key, default) == IF key \in DOMAIN d THEN d[key] ELSE default

----------------------------------------------------------------------------
\* str.lower() and str.strip() on a message given as its characters

lower_char(c) ==
    CASE c = "A" -> "a" [] c = "C" -> "c" [] c = "E" -> "e"
      [] c = "L" -> "l" [] c = "N" -> "n" [] c = "R" -> "r"
      [] c = "S" -> "s" [] c = "T" -> "t" [] OTHER -> c

lower(m) == [i \in 1..Len(m) |-> lower_char(m[i])]

IsSpace(c) == c \in {" ", "\t", "\n"}

RECURSIVE lstrip(_)
lstrip(m) == IF m # <<>> /\ IsSpace(Head(m)) THEN lstrip(Tail(m)) ELSE m

RECURSIVE rstrip(_)
rstrip(m) ==
    IF m # <<>> /\ IsSpace(m[Len(m)]) THEN rstrip(SubSeq(m, 1, Len(m) - 1)) ELSE m

strip(m) == rstrip(lstrip(m))

----------------------------------------------------------------------------
\* app/agent/memory.py  MemoryManager.  Each operator takes the contents of
\* the Redis key family it works on and returns the value read or the new
\* contents.

HISTORY_LIMIT == 20

default_state ==
    [current_function |-> None, collected_arguments |-> EmptyDict,
     missing_fields |-> <<>>, status |-> "idle"]

\* variant of get_session_state that answers an absent record with a state of
\* nulls
get_session_state_null_default(states, session_id) ==
    IF states[session_id] = Null
    THEN [current_function |-> None, collected_arguments |-> EmptyDict,
          missing_fields |-> <<>>, status |-> None]
    ELSE states[session_id][1]

get_session_state(states, session_id) ==
    IF states[session_id] = Null THEN default_state ELSE states[session_id][1]

\* variant of set_session_state that merges into the stored arguments
\* instead of replacing them
set_session_state_merging(states, session_id, current_function, collected_arguments, missing_fields, status) ==
    [states EXCEPT ![session_id] =
        Some([current_function |-> current_function,
              collected_arguments |->
                  collected_arguments
                      @@ (IF states[session_id] = Null THEN EmptyDict
                          ELSE states[session_id][1].collected_arguments),
              missing_fields |-> missing_fields,
              status |-> status])]

set_session_state(states, session_id, current_function, collected_arguments, missing_fields, status) ==
    [states EXCEPT ![session_id] =
        Some([current_function |-> current_function,
              collected_arguments |-> collected_arguments,
              missing_fields |-> missing_fields,
              status |-> status])]

\* variant of clear_session_state that leaves the key in place
clear_session_state_skipped(states, session_id) == states

clear_session_state(states, session_id) == [states EXCEPT ![session_id] = Null]

get_conversation_history(histories, session_id) ==
    IF histories[session_id] = Null THEN <<>> ELSE histories[session_id][1]

\* variant of add_to_history that writes the new entry over the stored list
add_to_history_replacing(histories, session_id, role, content) ==
    [histories EXCEPT ![session_id] = Some(<<[role |-> role, content |-> content]>>)]

\* variant of add_to_history that keeps the first HISTORY_LIMIT entries
add_to_history_keeps_oldest(histories, session_id, role, content) ==
    LET history == Append(get_conversation_history(histories, session_id),
                          [role |-> role, content |-> content])
        kept == IF Len(history) > HISTORY_LIMIT
                THEN SubSeq(history, 1, HISTORY_LIMIT)
                ELSE history
    IN  [histories EXCEPT ![session_id] = Some(kept)]

add_to_history(histories, session_id, role, content) ==
    LET history == Append(get_conversation_history(histories, session_id),
                          [role |-> role, content |-> content])
        kept == IF Len(history) > HISTORY_LIMIT
                THEN SubSeq(history, Len(history) - HISTORY_LIMIT + 1, Len(history))
                ELSE history
    IN  [histories EXCEPT ![session_id] = Some(kept)]

set_context(contexts, session_id, context_data) ==
    [contexts EXCEPT ![session_id] = Some(context_data)]

get_context(contexts, session_id) ==
    IF contexts[session_id] = Null THEN EmptyDict ELSE contexts[session_id][1]

\* variant of clear_context that leaves the key in place
clear_context_skipped(contexts, session_id) == contexts

clear_context(contexts, session_id) == [contexts EXCEPT ![session_id] = Null]

\* variant of clear_all that deletes the history and context keys only
clear_all_keeps_state(states, histories, contexts, session_id) ==
    [state   |-> states,
     history |-> [histories EXCEPT ![session_id] = Null],
     context |-> [contexts EXCEPT ![session_id] = Null]]

\* variant of clear_all that deletes the keys of every session
clear_all_every_session(states, histories, contexts, session_id) ==
    [state   |-> [s \in DOMAIN states |-> Null],
     history |-> [s \in DOMAIN histories |-> Null],
     context |-> [s \in DOMAIN contexts |-> Null]]

\* variant of clear_all that deletes the state and history keys only
clear_all_keeps_context(states, histories, contexts, session_id) ==
    [state   |-> [states EXCEPT ![session_id] = Null],
     history |-> [histories EXCEPT ![session_id] = Null],
     context |-> contexts]

\* clear_all deletes the three keys in one DEL command; the result is the
\* triple of new key families
clear_all(states, histories, contexts, session_id) ==
    [state   |-> [states EXCEPT ![session_id] = Null],
     history |-> [histories EXCEPT ![session_id] = Null],
     context |-> [contexts EXCEPT ![session_id] = Null]]

----------------------------------------------------------------------------
\* app/agent/llm_client.py

FALLBACK_PARSE_MESSAGE == <<"I didn't understand that clearly. Could you rephrase?">>
FALLBACK_TYPE_MESSAGE == <<"I need more information. What would you like to do?">>

LLMResponse(type, message, missing_fields, current_function, partial_arguments, name, arguments) ==
    [type |-> type, message |-> message, missing_fields |-> missing_fields,
     current_function |-> current_function,
     partial_arguments |-> partial_arguments, name |-> name,
     arguments |-> arguments]

\* the dict get_completion substitutes when json.loads fails
fallback_output ==
    [type |-> "ask_user", message |-> FALLBACK_PARSE_MESSAGE,
     missing_fields |-> Some(<<>>), current_function |-> None,
     partial_arguments |-> Some(EmptyDict)]

\* variant of _validate_llm_response that passes an unknown type on
_validate_llm_response_passing_type(llm_output) ==
    LET response_type == GetStr(llm_output, "type", None)
    IN  IF response_type = "ask_user"
        THEN LLMResponse("ask_user",
                         GetStr(llm_output, "message", <<"">>),
                         GetOpt(llm_output, "missing_fields", <<>>),
                         GetStr(llm_output, "current_function", None),
                         GetOpt(llm_output, "partial_arguments", EmptyDict),
                         None, Null)
        ELSE IF response_type = "call_function"
        THEN LLMResponse("call_function", None, Null, None, Null,
                         GetStr(llm_output, "name", None),
                         GetOpt(llm_output, "arguments", EmptyDict))
        ELSE LLMResponse(response_type, FALLBACK_TYPE_MESSAGE, Some(<<>>), None,
                         Some(EmptyDict), None, Null)

_validate_llm_response(llm_output) ==
    LET response_type == GetStr(llm_output, "type", None)
    IN  IF response_type = "ask_user"
        THEN LLMResponse("ask_user",
                         GetStr(llm_output, "message", <<"">>),
                         GetOpt(llm_output, "missing_fields", <<>>),
                         GetStr(llm_output, "current_function", None),
                         GetOpt(llm_output, "partial_arguments", EmptyDict),
                         None, Null)
        ELSE IF response_type = "call_function"
        THEN LLMResponse("call_function", None, Null, None, Null,
                         GetStr(llm_output, "name", None),
                         GetOpt(llm_output, "arguments", EmptyDict))
        ELSE LLMResponse("ask_user", FALLBACK_TYPE_MESSAGE, Some(<<>>), None,
                         Some(EmptyDict), None, Null)

\* variant of build_messages that puts the new message before the history
build_messages_message_before_history(message, session_state, conversation_history, restaurant_context, available_functions) ==
    << [role |-> "system", content |-> <<"SYSTEM PROMPT">>],
       [role |-> "system", content |-> <<"AVAILABLE FUNCTIONS:", available_functions>>],
       [role |-> "system", content |-> <<"CURRENT SESSION STATE:", session_state>>] >>
    \o (IF restaurant_context # EmptyDict
        THEN << [role |-> "system",
                 content |-> <<"RESTAURANT CONTEXT:", restaurant_context>>] >>
        ELSE <<>>)
    \o << [role |-> "user", content |-> message] >>
    \o conversation_history

\* The `messages` list get_completion posts (llm_client.py lines 47-91): the
\* system prompt, the function specifications, the session state, the
\* restaurant context `if request.restaurant_context`, the conversation
\* history (`messages.extend`), the current message.  A system message's
\* content is its heading followed by the value formatted into it.
build_messages(message, session_state, conversation_history, restaurant_context, available_functions) ==
    << [role |-> "system", content |-> <<"SYSTEM PROMPT">>],
       [role |-> "system", content |-> <<"AVAILABLE FUNCTIONS:", available_functions>>],
       [role |-> "system", content |-> <<"CURRENT SESSION STATE:", session_state>>] >>
    \o (IF restaurant_context # EmptyDict
        THEN << [role |-> "system",
                 content |-> <<"RESTAURANT CONTEXT:", restaurant_context>>] >>
        ELSE <<>>)
    \o conversation_history
    \o << [role |-> "user", content |-> message] >>

\* variant of get_completion that posts again after a transport failure
get_completion_retrying(raw) ==
    IF raw.kind = "http_error"
    THEN [raised |-> TRUE, error |-> <<"LLM API error: ", "transport">>, posts |-> 2]
    ELSE IF raw.kind = "not_json"
    THEN [raised |-> FALSE, value |-> _validate_llm_response(fallback_output),
          posts |-> 1]
    ELSE IF raw.kind = "json_non_object"
    THEN [raised |-> TRUE, error |-> <<"LLM processing error: ", "AttributeError">>,
          posts |-> 1]
    ELSE [raised |-> FALSE, value |-> _validate_llm_response(raw.obj), posts |-> 1]

\* get_completion from the point where the HTTP exchange ends.  raw is what
\* came back: a transport failure, text that is not JSON, JSON that is not an
\* object (.get then raises AttributeError inside the outer try), or a JSON
\* object.  The result is either a raised exception or an LLMResponse.
\* `posts` counts the client.post calls made: there is one, outside any loop.
get_completion(raw) ==
    IF raw.kind = "http_error"
    THEN [raised |-> TRUE, error |-> <<"LLM API error: ", "transport">>, posts |-> 1]
    ELSE IF raw.kind = "not_json"
    THEN [raised |-> FALSE, value |-> _validate_llm_response(fallback_output),
          posts |-> 1]
    ELSE IF raw.kind = "json_non_object"
    THEN [raised |-> TRUE, error |-> <<"LLM processing error: ", "AttributeError">>,
          posts |-> 1]
    ELSE [raised |-> FALSE, value |-> _validate_llm_response(raw.obj), posts |-> 1]

----------------------------------------------------------------------------
\* app/agent/function_registry.py and the handlers of app/agent/tools

\* _functions: name -> the "required" list of the registered specification
_functions ==
    [create_menu_item |-> [required |-> {"restaurant_id", "group_id", "name", "price"}],
     get_menu_items |-> [required |-> {"restaurant_id"}],
     update_menu_item |-> [required |-> {"item_id"}],
     create_menu_group |-> [required |-> {"restaurant_id", "name"}]]

\* the required parameter names the registry declares for a stored
\* current_function; none for no function or an unregistered one
required_parameters(name) ==
    IF name \in DOMAIN _functions THEN _functions[name].required ELSE {}

\* `self._functions[name] = FunctionSpec(...)`
register_function(reg, name, spec) ==
    [reg EXCEPT !.functions = (name :> spec) @@ reg.functions]

\* variant of register_handler that registers nothing
register_handler_skipped(reg, name, handler) == reg

\* `self._handlers[name] = handler`
register_handler(reg, name, handler) ==
    [reg EXCEPT !.handlers = (name :> handler) @@ reg.handlers]

\* _handlers: name -> the keyword parameters of the registered coroutine
_handlers ==
    [create_menu_item |->
        [required |-> {"restaurant_id", "group_id", "name", "price"},
         optional |-> {"desc", "image", "ordertype", "labels", "extras_list"}],
     get_menu_items |->
        [required |-> {"restaurant_id"}, optional |-> {"group_id"}],
     update_menu_item |->
        [required |-> {"item_id"},
         optional |-> {"name", "price", "desc", "enable", "sold_out"}],
     create_menu_group |->
        [required |-> {"restaurant_id", "name"}, optional |-> {"icon"}]]

\* `await handler(**arguments)`: Python raises TypeError when a required
\* keyword is missing or an unexpected one is given; otherwise the handler
\* posts to the backend and returns a string for either backend status.
\* `calls` counts the handler calls made, `backend` is the status of the
\* backend's answer when the handler got to ask it.
call_handler(name, arguments, backend_status) ==
    LET sig == _handlers[name]
        keys == DOMAIN arguments
    IN  IF ~(sig.required \subseteq keys)
        THEN [raised |-> TRUE, error |-> <<"TypeError: missing argument">>,
              calls |-> 1, backend |-> Null]
        ELSE IF ~(keys \subseteq (sig.required \cup sig.optional))
        THEN [raised |-> TRUE, error |-> <<"TypeError: unexpected keyword">>,
              calls |-> 1, backend |-> Null]
        ELSE IF backend_status = "200"
        THEN [raised |-> FALSE, value |-> <<"ok: ", name>>,
              calls |-> 1, backend |-> Some(backend_status)]
        ELSE [raised |-> FALSE, value |-> <<"Failed: ", name>>,
              calls |-> 1, backend |-> Some(backend_status)]

get_handler_found(name) == name \in DOMAIN _handlers

execute_function(name, arguments, backend_status) ==
    IF ~get_handler_found(name)
    THEN [raised |-> TRUE,
          error |-> <<"'No handler registered for function: ", name, "'">>,
          calls |-> 0, backend |-> Null]
    ELSE call_handler(name, arguments, backend_status)

----------------------------------------------------------------------------
\* app/agent/router.py

FUNCTIONS_NEEDING_GROUPS == {"create_menu_item", "get_menu_items"}

\* the literal list of process_chat's special-command test, as characters
CANCEL_COMMANDS ==
    { <<"c","a","n","c","e","l">>,
      <<"r","e","s","e","t">>,
      <<"c","l","e","a","r">>,
      <<"s","t","a","r","t"," ","o","v","e","r">> }

RESET_REPLY == <<"Conversation cleared. What would you like to do?">>
UNKNOWN_TYPE_REPLY == <<"I didn't understand that. Could you please rephrase?">>

ChatResponse(type, reply, session_id, function, missing_fields) ==
    [type |-> type, reply |-> reply, session_id |-> session_id,
     function |-> function, missing_fields |-> missing_fields]

\* the list comprehension over groups_data
context_groups(groups_data) ==
    [i \in 1..Len(groups_data) |->
        [id |-> groups_data[i].g_id, name |-> groups_data[i].gname,
         icon |-> groups_data[i].g_icon]]

\* fetch_restaurant_context: the context returned, the context keys
\* afterwards, and whether the cache was used / the backend was asked
\* variant of fetch_restaurant_context that asks the backend for the groups
\* whatever the function is
fetch_restaurant_context_for_all(contexts, restaurant_id, session_id, function_name, groups_response) ==
    LET cached == get_context(contexts, session_id)
        groups == IF groups_response.status = "200"
                  THEN context_groups(groups_response.groups)
                  ELSE <<>>
        context == [restaurant_id |-> restaurant_id, groups |-> groups]
    IN  IF cached # EmptyDict
        THEN [context |-> cached, contexts |-> contexts,
              cache_hit |-> TRUE, backend_called |-> FALSE]
        ELSE [context |-> context,
              contexts |-> set_context(contexts, session_id, context),
              cache_hit |-> FALSE,
              backend_called |-> TRUE]

fetch_restaurant_context(contexts, restaurant_id, session_id, function_name, groups_response) ==
    LET cached == get_context(contexts, session_id)
        groups == IF function_name \in FUNCTIONS_NEEDING_GROUPS
                  THEN IF groups_response.status = "200"
                       THEN context_groups(groups_response.groups)
                       ELSE <<>>
                  ELSE <<>>
        context == [restaurant_id |-> restaurant_id, groups |-> groups]
    IN  IF cached # EmptyDict
        THEN [context |-> cached, contexts |-> contexts,
              cache_hit |-> TRUE, backend_called |-> FALSE]
        ELSE [context |-> context,
              contexts |-> set_context(contexts, session_id, context),
              cache_hit |-> FALSE,
              backend_called |-> function_name \in FUNCTIONS_NEEDING_GROUPS]

\* the record kept of the last process_chat call: the request, the session
\* state stored when it arrived, which branch ran, whether the oracle was
\* called, with which restaurant context and what it sent back, and the
\* executor call made; for a direct add_to_history call, the entry appended;
\* for a registration, the name and what was registered under it; for a
\* read of the three records, what the three getters returned.
\* requested_id is the request's session_id, records_read the session records
\* the call read with the getters, oracle_posts and handler_calls count the
\* oracle requests and handler calls made, backend_status is the backend's
\* answer to the handler, oracle_messages the message list built for the
\* oracle.  prev_state is kept for every call, also for one
\* that did not read the state.
NoTrace ==
    [branch |-> "none", session_id |-> None, restaurant_id |-> 0,
     message |-> <<>>, prev_state |-> default_state, oracle_called |-> FALSE,
     context_hit |-> FALSE, groups_fetched |-> FALSE,
     oracle_context |-> Null, oracle_context_fn |-> None,
     raw |-> Null, llm_response |-> Null, executed |-> Null,
     exec_raised |-> FALSE, appended |-> Null, registered |-> Null,
     read |-> Null, requested_id |-> None, records_read |-> {},
     oracle_posts |-> 0, handler_calls |-> 0, backend_status |-> Null,
     oracle_messages |-> Null]

NoResponse == ChatResponse("none", <<>>, None, None, Null)

\* variant of ensure_restaurant_id that passes the oracle's arguments on as
\* they are
ensure_restaurant_id_skipped(arguments, restaurant_id) == arguments

\* `if "restaurant_id" not in arguments: arguments["restaurant_id"] = ...`
ensure_restaurant_id(arguments, restaurant_id) ==
    IF "restaurant_id" \notin DOMAIN arguments
    THEN arguments @@ ("restaurant_id" :> restaurant_id)
    ELSE arguments

\* is this ask_user outcome a context switch (router.py line 165)
is_context_switch(current_function, llm_response) ==
    current_function # None /\ llm_response.current_function # current_function

\* variant of clear_access_token that leaves the token in place
clear_access_token_skipped(token) == token

\* BackendClient.clear_access_token: `self._access_token = None`
clear_access_token(token) == None

\* variant of is_cancel_command that looks at the message as typed
is_cancel_command_as_typed(message) == message \in CANCEL_COMMANDS

\* `request.message.lower().strip() in [...]` (router.py line 101)
is_cancel_command(message) == strip(lower(message)) \in CANCEL_COMMANDS

\* The expiries of a session's keys after a process_chat call `call` (its
\* trace record): every setex restarts the expiry of its own key at
\* session_ttl, a delete removes the key, a key the call did not write keeps
\* the time it had.
\*   state:   set_session_state on ask_user (router.py 153), deleted by
\*            clear_session_state after an execution (194) and by clear_all
\*   history: add_to_history on every path past the oracle call (148),
\*            deleted by clear_all
\*   context: set_context in fetch_restaurant_context unless the cache was
\*            used (62), deleted by clear_context and clear_all
ttl_after(old, call, context_after) ==
    LET state_written == call.branch = "ask_user"
        state_deleted == call.branch = "reset"
                            \/ (call.branch = "call_function" /\ ~call.exec_raised)
        history_written == call.branch \in {"ask_user", "call_function", "unknown_type"}
        history_deleted == call.branch = "reset"
        context_deleted == context_after = Null
        context_written == ~context_deleted /\ ~call.context_hit
        touched == (IF state_written \/ state_deleted THEN {"state"} ELSE {})
                   \cup (IF history_written \/ history_deleted THEN {"history"} ELSE {})
                   \cup (IF context_written \/ context_deleted THEN {"context"} ELSE {})
    IN  [state |-> IF state_written THEN session_ttl
                   ELSE IF state_deleted THEN 0 ELSE old.state,
         history |-> IF history_written THEN session_ttl
                     ELSE IF history_deleted THEN 0 ELSE old.history,
         context |-> IF context_deleted THEN 0
                     ELSE IF context_written THEN session_ttl ELSE old.context,
         expired |-> old.expired \ touched]

\* variant of llm_error_response that answers with a question
llm_error_response_as_question(session_id, error) ==
    ChatResponse("ask_user", <<"I encountered an error: ">> \o error,
                 session_id, None, Null)

\* the response returned when get_completion raises (router.py lines 139-145)
llm_error_response(session_id, error) ==
    ChatResponse("error", <<"I encountered an error: ">> \o error,
                 session_id, None, Null)

process_chat(request, uuid, raw, groups_response, backend_status) ==
    LET session_id == IF request.session_id \in {None, ""}
                      THEN generate_session_id(uuid)
                      ELSE request.session_id
        base == [NoTrace EXCEPT !.session_id = session_id,
                                !.requested_id = request.session_id,
                                !.restaurant_id = request.restaurant_id,
                                !.message = request.message,
                                !.prev_state =
                                    get_session_state(state_key, session_id)]
    IN
    /\ nmsgs' = nmsgs + 1
    /\ registry' = registry
    /\ tasks' = tasks
    /\ access_token' = clear_access_token(access_token)   \* the `finally`
    /\ IF is_cancel_command(request.message)
       THEN LET cleared == clear_all(state_key, history_key, context_key, session_id)
            IN  /\ state_key' = cleared.state
                /\ history_key' = cleared.history
                /\ context_key' = cleared.context
                /\ context_fn' = [context_fn EXCEPT ![session_id] = None]
                /\ response' = ChatResponse("reset", RESET_REPLY, session_id, None, Null)
                /\ trace' = [base EXCEPT !.branch = "reset"]
       ELSE
       LET session_state == get_session_state(state_key, session_id)
           current_function == session_state.current_function
           conversation_history == get_conversation_history(history_key, session_id)
           fetched == fetch_restaurant_context(context_key, request.restaurant_id,
                                               session_id, current_function,
                                               groups_response)
           restaurant_context == fetched.context
           fn1 == IF fetched.cache_hit THEN context_fn
                  ELSE [context_fn EXCEPT ![session_id] = current_function]
           completion == get_completion(raw)
           called == [base EXCEPT !.oracle_called = TRUE,
                                  !.records_read = {"state", "history", "context"},
                                  !.oracle_posts = completion.posts,
                                  !.raw = Some(raw),
                                  !.context_hit = fetched.cache_hit,
                                  !.groups_fetched = fetched.backend_called,
                                  !.oracle_context = Some(restaurant_context),
                                  !.oracle_context_fn = fn1[session_id]]
       IN
       IF completion.raised
       THEN /\ state_key' = state_key
            /\ history_key' = history_key
            /\ context_key' = fetched.contexts
            /\ context_fn' = fn1
            /\ response' = llm_error_response(session_id, completion.error)
            /\ trace' = [called EXCEPT !.branch = "llm_error"]
       ELSE
       LET llm_response == completion.value
           with_user == add_to_history(history_key, session_id, "user", request.message)
       IN
       IF llm_response.type = "ask_user"
       THEN /\ state_key' = set_session_state(state_key, session_id,
                                llm_response.current_function,
                                OrEmpty(llm_response.partial_arguments),
                                OrEmpty(llm_response.missing_fields),
                                "collecting")
            /\ history_key' = add_to_history(with_user, session_id, "assistant",
                                             llm_response.message)
            /\ IF is_context_switch(current_function, llm_response)
               THEN /\ context_key' = clear_context(fetched.contexts, session_id)
                    /\ context_fn' = [fn1 EXCEPT ![session_id] = None]
               ELSE /\ context_key' = fetched.contexts
                    /\ context_fn' = fn1
            /\ response' = ChatResponse("ask_user", llm_response.message, session_id,
                                        None, llm_response.missing_fields)
            /\ trace' = [called EXCEPT !.branch = "ask_user",
                                       !.llm_response = Some(llm_response)]
       ELSE IF llm_response.type = "call_function"
       THEN LET function_name == llm_response.name
                arguments == ensure_restaurant_id(OrEmpty(llm_response.arguments),
                                                  request.restaurant_id)
                result == execute_function(function_name, arguments, backend_status)
                executed == [called EXCEPT
                                !.branch = "call_function",
                                !.llm_response = Some(llm_response),
                                !.executed = Some([name |-> function_name,
                                                   arguments |-> arguments]),
                                !.exec_raised = result.raised,
                                !.handler_calls = result.calls,
                                !.backend_status = result.backend]
            IN  IF ~result.raised
                THEN /\ state_key' = clear_session_state(state_key, session_id)
                     /\ history_key' = add_to_history(with_user, session_id,
                                                      "assistant", result.value)
                     /\ context_key' = clear_context(fetched.contexts, session_id)
                     /\ context_fn' = [fn1 EXCEPT ![session_id] = None]
                     /\ response' = ChatResponse("result", result.value, session_id,
                                                 function_name, Null)
                     /\ trace' = executed
                ELSE LET error_msg == <<"Error executing ", function_name, ": ">>
                                          \o result.error
                     IN  /\ state_key' = state_key
                         /\ history_key' = add_to_history(with_user, session_id,
                                                          "assistant", error_msg)
                         /\ context_key' = fetched.contexts
                         /\ context_fn' = fn1
                         /\ response' = ChatResponse("error", error_msg, session_id,
                                                     None, Null)
                         /\ trace' = executed
       ELSE /\ state_key' = state_key
            /\ history_key' = with_user
            /\ context_key' = fetched.contexts
            /\ context_fn' = fn1
            /\ response' = ChatResponse("error", UNKNOWN_TYPE_REPLY, session_id,
                                        None, Null)
            /\ trace' = [called EXCEPT !.branch = "unknown_type",
                                       !.llm_response = Some(llm_response)]
    /\ ttl_key' = [ttl_key EXCEPT ![session_id] =
                      ttl_after(ttl_key[session_id], trace', context_key'[session_id])]

----------------------------------------------------------------------------
\* Inputs

\* user messages, as characters
MSG_CANCEL      == <<"c","a","n","c","e","l">>
MSG_CANCEL_RAW  == <<" ","C","A","N","C","E","L"," ">>
MSG_RESET       == <<"R","e","s","e","t">>
MSG_CLEAR       == <<"c","l","e","a","r","\n">>
MSG_START_OVER  == <<"s","t","a","r","t"," ","o","v","e","r">>
MSG_NEVERMIND   == <<"n","e","v","e","r","m","i","n","d">>
MSG_FORGET_IT   == <<"f","o","r","g","e","t"," ","i","t">>
MSG_SOUP        == <<"s","o","u","p">>

Messages ==
    {MSG_CANCEL, MSG_CANCEL_RAW, MSG_RESET, MSG_CLEAR, MSG_START_OVER,
     MSG_NEVERMIND, MSG_FORGET_IT, MSG_SOUP}

\* process_chat reads request.access_token (router.py line 87); the request
\* carries it next to the fields ChatRequest declares
AccessTokens == {"tok"}

Requests ==
    [session_id : SessionIds, restaurant_id : RestaurantIds,
     message : Messages, access_token : AccessTokens]

\* what the oracle can send back
ASK_MESSAGE == <<"Which price?">>
ARGS_NAME == ("name" :> "Soup")
ARGS_FULL == ("group_id" :> 5) @@ ("name" :> "Soup") @@ ("price" :> "8.99")
ARGS_FOREIGN == ("restaurant_id" :> 2) @@ ARGS_NAME
ARGS_NAME_PRICE == ("name" :> "Soup") @@ ("price" :> "8.99")

\* the outcomes of the create_menu_item conversation: the question for the
\* price, the call with name and price, the call with the group as well
ASK_PRICE ==
    [type |-> "ask_user", message |-> ASK_MESSAGE,
     current_function |-> "create_menu_item",
     partial_arguments |-> Some(ARGS_NAME), missing_fields |-> Some(<<"price">>)]
\* the stored state after the question for the price
COLLECTING_PRICE ==
    [current_function |-> "create_menu_item", collected_arguments |-> ARGS_NAME,
     missing_fields |-> <<"price">>, status |-> "collecting"]

CALL_NAME_PRICE ==
    [type |-> "call_function", name |-> "create_menu_item",
     arguments |-> Some(ARGS_NAME_PRICE)]
CALL_FULL ==
    [type |-> "call_function", name |-> "create_menu_item",
     arguments |-> Some(ARGS_FULL)]

\* ask_user objects: the create_menu_item scenario, keys left out (the
\* .get defaults apply), keys present with null, a group request, and
\* questions that name no function
AskUserObjects ==
    { ASK_PRICE,
      [type |-> "ask_user", message |-> ASK_MESSAGE,
       current_function |-> "create_menu_item"],
      [type |-> "ask_user", message |-> ASK_MESSAGE,
       current_function |-> "create_menu_item",
       partial_arguments |-> Null, missing_fields |-> Null],
      [type |-> "ask_user", message |-> ASK_MESSAGE,
       current_function |-> "create_menu_group",
       partial_arguments |-> Some(EmptyDict), missing_fields |-> Some(<<"name">>)],
      [type |-> "ask_user"],
      [type |-> "ask_user", message |-> ASK_MESSAGE, current_function |-> None,
       partial_arguments |-> Some(ARGS_NAME), missing_fields |-> Some(<<"price">>)] }

\* call_function objects: complete and incomplete argument sets, a foreign
\* restaurant_id, an unregistered name, name and arguments left out or null
CallFunctionObjects ==
    { CALL_FULL,
      CALL_NAME_PRICE,
      [type |-> "call_function", name |-> "create_menu_item",
       arguments |-> Some(ARGS_NAME)],
      [type |-> "call_function", name |-> "create_menu_group",
       arguments |-> Some(ARGS_NAME)],
      [type |-> "call_function", name |-> "create_menu_group",
       arguments |-> Some(ARGS_FOREIGN)],
      [type |-> "call_function", name |-> "create_menu_group",
       arguments |-> Null],
      [type |-> "call_function", name |-> "no_such_function",
       arguments |-> Some(ARGS_NAME)],
      [type |-> "call_function"] }

OtherObjects == { EmptyDict, ("type" :> "chat") }

RawOutputs ==
    { [kind |-> "http_error"], [kind |-> "not_json"], [kind |-> "json_non_object"] }
    \cup { [kind |-> "json_object", obj |-> o] :
             o \in AskUserObjects \cup CallFunctionObjects \cup OtherObjects }

GROUPS_DATA == << [g_id |-> 5, gname |-> "Mains", g_icon |-> 1] >>

GroupsResponses ==
    { [status |-> "200", groups |-> GROUPS_DATA], [status |-> "error", groups |-> <<>>] }

BackendStatuses == {"200", "error"}

----------------------------------------------------------------------------
\* Specification

Init ==
    /\ state_key = [s \in StoreIds |-> Null]
    /\ history_key = [s \in StoreIds |-> Null]
    /\ context_key = [s \in StoreIds |-> Null]
    /\ access_token = None
    /\ context_fn = [s \in StoreIds |-> None]
    /\ response = NoResponse
    /\ trace = NoTrace
    /\ nmsgs = 0
    /\ registry = [functions |-> _functions, handlers |-> _handlers]
    /\ ttl_key = [s \in StoreIds |-> NoKeys]
    /\ tasks = NoTasks

\* The backend answers matter only to a call that asks the backend: the
\* group fetch happens for a grounded function with nothing cached, a
\* handler runs only on a call_function outcome.  Elsewhere one answer is
\* enumerated instead of all.
\* uuid4 is drawn only for a request without a session id
UuidsFor(request) ==
    IF request.session_id \in {None, ""} THEN Uuids ELSE {CHOOSE u \in Uuids : TRUE}

GroupsResponsesFor(request) ==
    IF fetch_restaurant_context(context_key, request.restaurant_id,
                                request.session_id,
                                get_session_state(state_key, request.session_id).current_function,
                                CHOOSE g \in GroupsResponses : TRUE).backend_called
    THEN GroupsResponses
    ELSE {CHOOSE g \in GroupsResponses : g.status = "error"}

BackendStatusesFor(raw) ==
    LET completion == get_completion(raw)
    IN  IF ~completion.raised /\ completion.value.type = "call_function"
        THEN BackendStatuses
        ELSE {"200"}

ProcessChat ==
    /\ nmsgs < MaxMessages
    /\ \E request \in Requests, raw \in RawOutputs :
         \E uuid \in UuidsFor(request),
            groups_response \in GroupsResponsesFor(request),
            backend_status \in BackendStatusesFor(raw) :
              process_chat(request, uuid, raw, groups_response, backend_status)

Next == ProcessChat

Spec == Init /\ [][Next]_vars

----------------------------------------------------------------------------
\* Specification of repeated cancellation: after the MaxMessages messages of
\* Spec, up to MaxCancels further messages arrive that the cancellation test
\* of process_chat accepts.

MaxCancels == 2

CancelRequests ==
    {request \in Requests : strip(lower(request.message)) \in CANCEL_COMMANDS}

ProcessCancel ==
    /\ nmsgs >= MaxMessages
    /\ nmsgs < MaxMessages + MaxCancels
    /\ \E request \in CancelRequests :
        \E uuid \in UuidsFor(request) :
          process_chat(request, uuid, [kind |-> "http_error"],
                       CHOOSE g \in GroupsResponses : g.status = "error", "200")

NextCancel == ProcessChat \/ ProcessCancel

SpecCancel == Init /\ [][NextCancel]_vars

----------------------------------------------------------------------------
\* Specification of session ids: requests arrive without a session id, with
\* an empty one, with a caller's own id, or with an id an earlier response
\* carried.  uuid.uuid4() draws 122 random bits; the draws of one run are
\* taken to be distinct, the n-th message drawing the n-th value, and a caller
\* sends a generated id only after its draw.

uuid4(n) == IF n = 0 THEN "u1" ELSE IF n = 1 THEN "u2" ELSE "u3"

SessionRequests ==
    [session_id : {None, ""} \cup StoreIds, restaurant_id : {1},
     message : {MSG_SOUP, MSG_CANCEL}, access_token : AccessTokens]

SessionRawOutputs ==
    { [kind |-> "http_error"],
      [kind |-> "json_object", obj |-> ASK_PRICE],
      [kind |-> "json_object", obj |-> CALL_FULL] }

ProcessChatSession ==
    /\ nmsgs < MaxMessages
    /\ \E request \in SessionRequests, raw \in SessionRawOutputs :
          /\ request.session_id \in GeneratedIds
                => \E n \in 0..(nmsgs - 1) :
                      request.session_id = generate_session_id(uuid4(n))
          /\ process_chat(request, uuid4(nmsgs), raw,
                          CHOOSE g \in GroupsResponses : g.status = "200", "200")

NextSession == ProcessChatSession

SpecSession == Init /\ [][NextSession]_vars

----------------------------------------------------------------------------
\* Specification of the registry alone: the module-level registrations of
\* app/agent/tools/dashboard_tools.py and app/actions/dashboard.py, which
\* register the same names into the one function_registry, run in any order,
\* up to MaxRegistrations of them.

MaxRegistrations == 4

\* name, "required" list of the specification, keyword parameters of the
\* handler
Registrations ==
    { [name |-> "update_business_hours",
       spec |-> [required |-> {"restaurant_id", "day_of_week", "opening_time",
                               "closing_time"}],
       handler |-> [required |-> {"restaurant_id", "day_of_week", "opening_time",
                                  "closing_time"},
                    optional |-> {}]],
      [name |-> "update_business_hours",
       spec |-> [required |-> {"restaurant_id", "day", "hours"}],
       handler |-> [required |-> {"db", "restaurant_id", "day", "hours"},
                    optional |-> {}]],
      [name |-> "update_prep_time",
       spec |-> [required |-> {"restaurant_id", "prep_time_minutes"}],
       handler |-> [required |-> {"restaurant_id", "prep_time_minutes"},
                    optional |-> {}]],
      [name |-> "update_prep_time",
       spec |-> [required |-> {"restaurant_id", "prep_time_minutes"}],
       handler |-> [required |-> {"db", "restaurant_id", "prep_time_minutes"},
                    optional |-> {}]] }

InitRegistry ==
    /\ state_key = [s \in StoreIds |-> Null]
    /\ history_key = [s \in StoreIds |-> Null]
    /\ context_key = [s \in StoreIds |-> Null]
    /\ access_token = None
    /\ context_fn = [s \in StoreIds |-> None]
    /\ response = NoResponse
    /\ trace = NoTrace
    /\ nmsgs = 0
    /\ registry = [functions |-> EmptyDict, handlers |-> EmptyDict]
    /\ ttl_key = [s \in StoreIds |-> NoKeys]
    /\ tasks = NoTasks

\* neither registration has a path that raises
RegisterFunction ==
    /\ nmsgs < MaxRegistrations
    /\ \E r \in Registrations :
          /\ registry' = register_function(registry, r.name, r.spec)
          /\ trace' = [NoTrace EXCEPT !.branch = "register_function",
                                      !.registered = Some([name |-> r.name,
                                                           value |-> r.spec]),
                                      !.exec_raised = FALSE]
    /\ nmsgs' = nmsgs + 1
    /\ UNCHANGED <<state_key, history_key, context_key, access_token,
                   context_fn, response, ttl_key, tasks>>

RegisterHandler ==
    /\ nmsgs < MaxRegistrations
    /\ \E r \in Registrations :
          /\ registry' = register_handler(registry, r.name, r.handler)
          /\ trace' = [NoTrace EXCEPT !.branch = "register_handler",
                                      !.registered = Some([name |-> r.name,
                                                           value |-> r.handler]),
                                      !.exec_raised = FALSE]
    /\ nmsgs' = nmsgs + 1
    /\ UNCHANGED <<state_key, history_key, context_key, access_token,
                   context_fn, response, ttl_key, tasks>>

NextRegistry == RegisterFunction \/ RegisterHandler

SpecRegistry == InitRegistry /\ [][NextRegistry]_vars

----------------------------------------------------------------------------
\* Specification of start-up registration: the tool modules are imported in
\* any order, each once (Python caches an imported module).  Importing a
\* module runs its register_function calls and @register_handler decorators
\* from top to bottom.  The modules are the six of app/agent/tools and
\* app/actions/dashboard.py, all of which register into
\* app.agent.function_registry.

\* per module, its registrations in source order: the name, and the
\* "required" list of the specification or the keyword parameters of the
\* handler
ModuleRegistrations ==
    [
     dashboard_tools |-> <<
        [kind |-> "function", name |-> "get_restaurant_info",
         value |-> [required |-> {"restaurant_id"}]],
        [kind |-> "handler", name |-> "get_restaurant_info",
         value |-> [required |-> {"restaurant_id"},
                    optional |-> {}]],
        [kind |-> "function", name |-> "update_prep_time",
         value |-> [required |-> {"restaurant_id", "prep_time_minutes"}]],
        [kind |-> "handler", name |-> "update_prep_time",
         value |-> [required |-> {"restaurant_id", "prep_time_minutes"},
                    optional |-> {}]],
        [kind |-> "function", name |-> "update_business_hours",
         value |-> [required |-> {"restaurant_id", "day_of_week", "opening_time", "closing_time"}]],
        [kind |-> "handler", name |-> "update_business_hours",
         value |-> [required |-> {"restaurant_id", "day_of_week", "opening_time", "closing_time"},
                    optional |-> {}]],
        [kind |-> "function", name |-> "pause_restaurant",
         value |-> [required |-> {"restaurant_id"}]],
        [kind |-> "handler", name |-> "pause_restaurant",
         value |-> [required |-> {"restaurant_id"},
                    optional |-> {}]],
        [kind |-> "function", name |-> "unpause_restaurant",
         value |-> [required |-> {"restaurant_id"}]],
        [kind |-> "handler", name |-> "unpause_restaurant",
         value |-> [required |-> {"restaurant_id"},
                    optional |-> {}]],
        [kind |-> "function", name |-> "update_restaurant_address",
         value |-> [required |-> {"restaurant_id", "address"}]],
        [kind |-> "handler", name |-> "update_restaurant_address",
         value |-> [required |-> {"restaurant_id", "address"},
                    optional |-> {}]] >>,
     extras_tools |-> <<
        [kind |-> "function", name |-> "get_labels",
         value |-> [required |-> {}]],
        [kind |-> "handler", name |-> "get_labels",
         value |-> [required |-> {},
                    optional |-> {}]],
        [kind |-> "function", name |-> "create_label",
         value |-> [required |-> {"name"}]],
        [kind |-> "handler", name |-> "create_label",
         value |-> [required |-> {"name"},
                    optional |-> {}]],
        [kind |-> "function", name |-> "get_extras",
         value |-> [required |-> {"restaurant_id"}]],
        [kind |-> "handler", name |-> "get_extras",
         value |-> [required |-> {"restaurant_id"},
                    optional |-> {}]],
        [kind |-> "function", name |-> "create_extra",
         value |-> [required |-> {"restaurant_id", "name", "price"}]],
        [kind |-> "handler", name |-> "create_extra",
         value |-> [required |-> {"restaurant_id", "name", "price"},
                    optional |-> {}]],
        [kind |-> "function", name |-> "delete_extra",
         value |-> [required |-> {"extra_id"}]],
        [kind |-> "handler", name |-> "delete_extra",
         value |-> [required |-> {"extra_id"},
                    optional |-> {}]] >>,
     groups_tools |-> <<
        [kind |-> "function", name |-> "get_menu_groups",
         value |-> [required |-> {"restaurant_id"}]],
        [kind |-> "handler", name |-> "get_menu_groups",
         value |-> [required |-> {"restaurant_id"},
                    optional |-> {}]],
        [kind |-> "function", name |-> "create_menu_group",
         value |-> [required |-> {"restaurant_id", "name"}]],
        [kind |-> "handler", name |-> "create_menu_group",
         value |-> [required |-> {"restaurant_id", "name"},
                    optional |-> {"icon"}]],
        [kind |-> "function", name |-> "delete_menu_group",
         value |-> [required |-> {"group_id"}]],
        [kind |-> "handler", name |-> "delete_menu_group",
         value |-> [required |-> {"group_id"},
                    optional |-> {}]] >>,
     menu_tools |-> <<
        [kind |-> "function", name |-> "create_menu_item",
         value |-> [required |-> {"restaurant_id", "group_id", "name", "price"}]],
        [kind |-> "handler", name |-> "create_menu_item",
         value |-> [required |-> {"restaurant_id", "group_id", "name", "price"},
                    optional |-> {"desc", "image", "ordertype", "labels", "extras_list"}]],
        [kind |-> "function", name |-> "update_menu_item",
         value |-> [required |-> {"item_id"}]],
        [kind |-> "handler", name |-> "update_menu_item",
         value |-> [required |-> {"item_id"},
                    optional |-> {"name", "price", "desc", "enable", "sold_out"}]],
        [kind |-> "function", name |-> "get_menu_items",
         value |-> [required |-> {"restaurant_id"}]],
        [kind |-> "handler", name |-> "get_menu_items",
         value |-> [required |-> {"restaurant_id"},
                    optional |-> {"group_id"}]],
        [kind |-> "function", name |-> "delete_menu_item",
         value |-> [required |-> {"item_id"}]],
        [kind |-> "handler", name |-> "delete_menu_item",
         value |-> [required |-> {"item_id"},
                    optional |-> {}]] >>,
     orders_tools |-> <<
        [kind |-> "function", name |-> "get_orders",
         value |-> [required |-> {"restaurant_id"}]],
        [kind |-> "handler", name |-> "get_orders",
         value |-> [required |-> {"restaurant_id"},
                    optional |-> {}]],
        [kind |-> "function", name |-> "get_completed_orders",
         value |-> [required |-> {"restaurant_id"}]],
        [kind |-> "handler", name |-> "get_completed_orders",
         value |-> [required |-> {"restaurant_id"},
                    optional |-> {}]],
        [kind |-> "function", name |-> "cancel_order",
         value |-> [required |-> {"order_id"}]],
        [kind |-> "handler", name |-> "cancel_order",
         value |-> [required |-> {"order_id"},
                    optional |-> {}]],
        [kind |-> "function", name |-> "complete_order",
         value |-> [required |-> {"order_id"}]],
        [kind |-> "handler", name |-> "complete_order",
         value |-> [required |-> {"order_id"},
                    optional |-> {}]] >>,
     reports_tools |-> <<
        [kind |-> "function", name |-> "get_today_metrics",
         value |-> [required |-> {"restaurant_id"}]],
        [kind |-> "handler", name |-> "get_today_metrics",
         value |-> [required |-> {"restaurant_id"},
                    optional |-> {}]],
        [kind |-> "function", name |-> "get_sales_trends",
         value |-> [required |-> {"restaurant_id"}]],
        [kind |-> "handler", name |-> "get_sales_trends",
         value |-> [required |-> {"restaurant_id"},
                    optional |-> {}]],
        [kind |-> "function", name |-> "generate_sales_report",
         value |-> [required |-> {"restaurant_id", "start_date", "end_date"}]],
        [kind |-> "handler", name |-> "generate_sales_report",
         value |-> [required |-> {"restaurant_id", "start_date", "end_date"},
                    optional |-> {"dine_in", "pay_mode"}]] >>,
     actions_dashboard |-> <<
        [kind |-> "function", name |-> "update_business_hours",
         value |-> [required |-> {"restaurant_id", "day", "hours"}]],
        [kind |-> "handler", name |-> "update_business_hours",
         value |-> [required |-> {"db", "restaurant_id", "day", "hours"},
                    optional |-> {}]],
        [kind |-> "function", name |-> "update_prep_time",
         value |-> [required |-> {"restaurant_id", "prep_time_minutes"}]],
        [kind |-> "handler", name |-> "update_prep_time",
         value |-> [required |-> {"db", "restaurant_id", "prep_time_minutes"},
                    optional |-> {}]],
        [kind |-> "function", name |-> "set_restaurant_pause_state",
         value |-> [required |-> {"restaurant_id", "is_paused"}]],
        [kind |-> "handler", name |-> "set_restaurant_pause_state",
         value |-> [required |-> {"db", "restaurant_id", "is_paused"},
                    optional |-> {}]],
        [kind |-> "function", name |-> "update_restaurant_address",
         value |-> [required |-> {"restaurant_id", "address"}]],
        [kind |-> "handler", name |-> "update_restaurant_address",
         value |-> [required |-> {"db", "restaurant_id", "address"},
                    optional |-> {}]] >> ]

ToolModules == DOMAIN ModuleRegistrations

RECURSIVE import_module(_, _)
import_module(reg, registrations) ==
    IF registrations = <<>> THEN reg
    ELSE LET r == Head(registrations)
         IN  import_module(IF r.kind = "function"
                           THEN register_function(reg, r.name, r.value)
                           ELSE register_handler(reg, r.name, r.value),
                           Tail(registrations))

\* get_function_specs: one entry per registered specification
get_function_specs(reg) ==
    {[name |-> name, parameters |-> reg.functions[name]] : name \in DOMAIN reg.functions}

\* get_handler returns the handler `if name in self._handlers`, else raises
get_handler_succeeds(reg, name) == name \in DOMAIN reg.handlers

\* the modules imported so far
Imported == IF trace.registered = Null THEN {} ELSE trace.registered[1].value

ImportModule ==
    /\ \E module \in ToolModules \ Imported :
          /\ registry' = import_module(registry, ModuleRegistrations[module])
          /\ trace' = [NoTrace EXCEPT !.branch = "import_module",
                                      !.registered = Some([name |-> module,
                                                           value |-> Imported \cup {module}])]
    /\ nmsgs' = nmsgs + 1
    /\ UNCHANGED <<state_key, history_key, context_key, access_token,
                   context_fn, response, ttl_key, tasks>>

NextModules == ImportModule

SpecModules == InitRegistry /\ [][NextModules]_vars

----------------------------------------------------------------------------
\* Specification of reads from the store: a session has its three records,
\* each written by setex with its own expiry, so each of them can disappear
\* on its own; the three getters are called at any time.

\* the turns of a recorded conversation, and the history key after the first
\* n of them were added
Turn(i) ==
    [role |-> IF i % 2 = 1 THEN "user" ELSE "assistant",
     content |-> <<"turn ", ToString(i)>>]

RECURSIVE Replay(_)
Replay(n) ==
    IF n = 0 THEN [s \in StoreIds |-> Null]
    ELSE add_to_history(Replay(n - 1), "s1", Turn(n).role, Turn(n).content)

MaxTurns == 3

StoredStates ==
    { COLLECTING_PRICE,
      [current_function |-> "create_menu_group", collected_arguments |-> EmptyDict,
       missing_fields |-> <<"name">>, status |-> "collecting"] }

StoredContexts ==
    { [restaurant_id |-> r, groups |-> context_groups(g.groups)] :
        r \in RestaurantIds, g \in GroupsResponses }

RecordNames == {"state", "history", "context"}

InitReads ==
    /\ \E stored \in StoredStates :
          state_key = set_session_state([s \in StoreIds |-> Null], "s1",
                                        stored.current_function,
                                        stored.collected_arguments,
                                        stored.missing_fields, stored.status)
    /\ \E n \in 1..MaxTurns : history_key = Replay(n)
    /\ \E context_data \in StoredContexts :
          context_key = set_context([s \in StoreIds |-> Null], "s1", context_data)
    /\ access_token = None
    /\ context_fn = [s \in StoreIds |-> None]
    /\ response = NoResponse
    /\ trace = NoTrace
    /\ nmsgs = 0
    /\ registry = [functions |-> _functions, handlers |-> _handlers]
    /\ ttl_key = [s \in StoreIds |->
                    IF s = "s1"
                    THEN [state |-> session_ttl, history |-> session_ttl,
                          context |-> session_ttl, expired |-> {}]
                    ELSE NoKeys]
    /\ tasks = NoTasks

\* Redis drops a key on its own: its expiry has passed, or it was evicted
ExpireRecord ==
    /\ \E session_id \in SessionIds, record \in RecordNames :
          /\ state_key' = IF record = "state"
                          THEN [state_key EXCEPT ![session_id] = Null]
                          ELSE state_key
          /\ history_key' = IF record = "history"
                            THEN [history_key EXCEPT ![session_id] = Null]
                            ELSE history_key
          /\ context_key' = IF record = "context"
                            THEN [context_key EXCEPT ![session_id] = Null]
                            ELSE context_key
          /\ ttl_key' = [ttl_key EXCEPT
                           ![session_id][record] = 0,
                           ![session_id].expired = @ \cup {record}]
          /\ trace' = [NoTrace EXCEPT !.branch = "expire",
                                      !.session_id = session_id]
    /\ UNCHANGED <<access_token, context_fn, response, nmsgs, registry, tasks>>

ReadRecords ==
    /\ \E session_id \in SessionIds :
          trace' = [NoTrace EXCEPT
                      !.branch = "read",
                      !.session_id = session_id,
                      !.read = Some([state |-> get_session_state(state_key, session_id),
                                     history |-> get_conversation_history(history_key,
                                                                          session_id),
                                     context |-> get_context(context_key, session_id)])]
    /\ UNCHANGED <<state_key, history_key, context_key, access_token,
                   context_fn, response, nmsgs, registry, ttl_key, tasks>>

NextReads == ExpireRecord \/ ReadRecords

SpecReads == InitReads /\ [][NextReads]_vars

----------------------------------------------------------------------------
\* Specification of the context fetch: a session that is collecting, with
\* history and a cached context (InitReads), loses records to expiry and
\* receives messages.  A message that finds no cached context makes
\* process_chat build one, with or without asking the backend for the groups.

ASK_ITEMS ==
    [type |-> "ask_user", message |-> ASK_MESSAGE,
     current_function |-> "get_menu_items",
     partial_arguments |-> Some(EmptyDict), missing_fields |-> Some(<<"group_id">>)]

FetchRequests ==
    [session_id : SessionIds, restaurant_id : RestaurantIds,
     message : {MSG_SOUP, MSG_CANCEL, MSG_CANCEL_RAW}, access_token : AccessTokens]

FetchRawOutputs ==
    SessionRawOutputs \cup { [kind |-> "json_object", obj |-> ASK_ITEMS] }

ProcessChatFetch ==
    /\ nmsgs < MaxMessages
    /\ \E request \in FetchRequests, raw \in FetchRawOutputs :
         \E uuid \in UuidsFor(request),
            groups_response \in GroupsResponsesFor(request) :
              process_chat(request, uuid, raw, groups_response, "200")

NextFetch == ProcessChatFetch \/ ExpireRecord

SpecFetch == InitReads /\ [][NextFetch]_vars

----------------------------------------------------------------------------
\* Specification of the oracle's message list: the records of a session
\* (InitReads) expire one by one, and get_completion builds its messages from
\* an LLMRequest holding the records as the getters return them and a new
\* message.  An expired context is read as {} and an expired history as [].

NewMessages == {MSG_SOUP, MSG_NEVERMIND}

BuildMessages ==
    /\ \E session_id \in SessionIds, message \in NewMessages :
         LET session_state == get_session_state(state_key, session_id)
             conversation_history == get_conversation_history(history_key, session_id)
             restaurant_context == get_context(context_key, session_id)
         IN  trace' = [NoTrace EXCEPT
                         !.branch = "build_messages",
                         !.session_id = session_id,
                         !.message = message,
                         !.read = Some([state |-> session_state,
                                        history |-> conversation_history,
                                        context |-> restaurant_context]),
                         !.oracle_messages =
                             Some(build_messages(message, session_state,
                                                 conversation_history,
                                                 restaurant_context,
                                                 DOMAIN registry.functions))]
    /\ UNCHANGED <<state_key, history_key, context_key, access_token,
                   context_fn, response, nmsgs, registry, ttl_key, tasks>>

NextMessages == ExpireRecord \/ BuildMessages

SpecMessages == InitReads /\ [][NextMessages]_vars

----------------------------------------------------------------------------
\* Specification of a store outage: a message can arrive while Redis cannot
\* be reached.  The first memory_manager call of process_chat (clear_all for
\* a cancel word, get_session_state otherwise) then raises
\* redis.exceptions.ConnectionError.  The outer `try` of process_chat has a
\* `finally` and no `except` (router.py lines 85, 230-233): the token is
\* cleared and the exception leaves process_chat, so no ChatResponse is
\* returned.  The response then records the exception that was raised.

RaisedResponse(session_id, error) ==
    ChatResponse("raised", <<error>>, session_id, None, Null)

process_chat_store_down(request, uuid) ==
    LET session_id == IF request.session_id \in {None, ""}
                      THEN generate_session_id(uuid)
                      ELSE request.session_id
    IN  /\ nmsgs' = nmsgs + 1
        /\ access_token' = clear_access_token(access_token)
        /\ response' = RaisedResponse(session_id, "redis.exceptions.ConnectionError")
        /\ trace' = [NoTrace EXCEPT !.branch = "raised",
                                    !.session_id = session_id,
                                    !.requested_id = request.session_id,
                                    !.restaurant_id = request.restaurant_id,
                                    !.message = request.message]
        /\ UNCHANGED <<state_key, history_key, context_key, context_fn,
                       registry, ttl_key, tasks>>

ProcessChatStoreDown ==
    /\ nmsgs < MaxMessages
    /\ \E request \in FetchRequests :
         \E uuid \in UuidsFor(request) : process_chat_store_down(request, uuid)

NextStore == ProcessChatFetch \/ ProcessChatStoreDown

SpecStore == InitReads /\ [][NextStore]_vars

----------------------------------------------------------------------------
\* Specification of expiry: messages of one conversation arrive with time
\* passing between them, TickSeconds at a time; Redis drops every key whose
\* time has run out.

TickSeconds == 1800

TtlRequests ==
    {request \in Requests : request.message \in {MSG_SOUP, MSG_CANCEL}
                               /\ request.restaurant_id = 1}

TtlRawOutputs ==
    { [kind |-> "http_error"], [kind |-> "not_json"] }
    \cup { [kind |-> "json_object", obj |-> o] :
             o \in {ASK_PRICE, CALL_NAME_PRICE, CALL_FULL} \cup OtherObjects }

ProcessChatTtl ==
    /\ nmsgs < MaxMessages
    /\ \E request \in TtlRequests, raw \in TtlRawOutputs :
        \E uuid \in UuidsFor(request) :
          process_chat(request, uuid, raw,
                       CHOOSE g \in GroupsResponses : g.status = "200", "200")

Tick ==
    LET left(s, record) == ttl_key[s][record] - TickSeconds
        gone(s) == {record \in RecordNames :
                        ttl_key[s][record] > 0 /\ left(s, record) <= 0}
        kept(s, record) == IF left(s, record) > 0 THEN left(s, record) ELSE 0
    IN  /\ \E s \in StoreIds, record \in RecordNames : ttl_key[s][record] > 0
        /\ state_key' = [s \in StoreIds |->
                            IF "state" \in gone(s) THEN Null ELSE state_key[s]]
        /\ history_key' = [s \in StoreIds |->
                            IF "history" \in gone(s) THEN Null ELSE history_key[s]]
        /\ context_key' = [s \in StoreIds |->
                            IF "context" \in gone(s) THEN Null ELSE context_key[s]]
        /\ context_fn' = [s \in StoreIds |->
                            IF "context" \in gone(s) THEN None ELSE context_fn[s]]
        /\ ttl_key' = [s \in StoreIds |->
                          [state |-> kept(s, "state"),
                           history |-> kept(s, "history"),
                           context |-> kept(s, "context"),
                           expired |-> ttl_key[s].expired \cup gone(s)]]
        /\ trace' = [NoTrace EXCEPT !.branch = "tick"]
        /\ UNCHANGED <<access_token, response, nmsgs, registry, tasks>>

NextTtl == ProcessChatTtl \/ Tick

SpecTtl == Init /\ [][NextTtl]_vars

----------------------------------------------------------------------------
\* Specification of concurrent requests.  process_chat is a coroutine: the
\* event loop runs it up to its next network await and may run another
\* request's coroutine before the awaited answer arrives.  The Redis client
\* is synchronous, so the code between two network awaits is one step:
\*   StartChat        entry up to the first await (group fetch or oracle)
\*   GroupsReturned   the group fetch answered: set_context, oracle called
\*   OracleReturned   the oracle answered: history, branch, up to the
\*                    handler's backend call or the return
\*   BackendReturned  the handler's backend call answered: up to the return
\* backend_client is one object of the module: every task reads and writes
\* the same _access_token.  A task's `sent` lists the token each of its
\* backend requests carried (_get_headers reads it when the request is made).

ConcurrentMessages == {MSG_SOUP, MSG_CANCEL}

\* each task serves a client of its own: its session and its token
TaskSession == [a |-> "s1", b |-> "s2"]
TaskToken == [a |-> "tok", b |-> "tok2"]

TaskRequests(t) ==
    [session_id : {TaskSession[t]}, restaurant_id : {1},
     message : ConcurrentMessages, access_token : {TaskToken[t]}]

\* the question for the name of a new group
ASK_GROUP_NAME ==
    [type |-> "ask_user", message |-> ASK_MESSAGE,
     current_function |-> "create_menu_group",
     partial_arguments |-> Some(EmptyDict), missing_fields |-> Some(<<"name">>)]

ConcurrentRawOutputs ==
    { [kind |-> "http_error"] }
    \cup { [kind |-> "json_object", obj |-> o] :
             o \in {ASK_PRICE, ASK_GROUP_NAME, CALL_NAME_PRICE, CALL_FULL} }

\* `if request.access_token: backend_client.set_access_token(...)`
token_at_entry(token, request) ==
    IF request.access_token \in {None, ""} THEN token ELSE request.access_token

\* setex restarts the expiry of the keys written, delete removes the others
touch_keys(ttls, session_id, written, deleted) ==
    LET after(record) == IF record \in written THEN session_ttl
                         ELSE IF record \in deleted THEN 0
                         ELSE ttls[session_id][record]
    IN  [ttls EXCEPT ![session_id] =
            [state |-> after("state"), history |-> after("history"),
             context |-> after("context"),
             expired |-> ttls[session_id].expired \ (written \cup deleted)]]

\* a session whose operation is stored while its context key is gone
\* (dropped by Redis, or cleared by a switch): the next message fetches groups
InitConcurrent ==
    /\ \E collecting \in SUBSET {"s1", "s2"} :
          /\ state_key = [s \in StoreIds |->
                            IF s \in collecting THEN Some(COLLECTING_PRICE) ELSE Null]
          /\ history_key = [s \in StoreIds |->
                            IF s \in collecting
                            THEN Some(<<[role |-> "user", content |-> MSG_SOUP],
                                        [role |-> "assistant", content |-> ASK_MESSAGE]>>)
                            ELSE Null]
          /\ ttl_key = [s \in StoreIds |->
                          IF s \in collecting
                          THEN [NoKeys EXCEPT !.state = session_ttl,
                                              !.history = session_ttl]
                          ELSE NoKeys]
    /\ context_key = [s \in StoreIds |-> Null]
    /\ access_token = None
    /\ context_fn = [s \in StoreIds |-> None]
    /\ response = NoResponse
    /\ trace = NoTrace
    /\ nmsgs = 0
    /\ registry = [functions |-> _functions, handlers |-> _handlers]
    /\ tasks = NoTasks

Finished(task) == [task EXCEPT !.pc = "done"]

\* a task starts on one of the given requests
StartChatWith(t, requests) ==
    /\ nmsgs < MaxMessages
    /\ nmsgs' = nmsgs + 1
    /\ registry' = registry
    /\ \E request \in requests :
      \E uuid \in UuidsFor(request) :
        LET token == token_at_entry(access_token, request)
            session_id == IF request.session_id \in {None, ""}
                          THEN generate_session_id(uuid)
                          ELSE request.session_id
            task == [pc |-> "started", request |-> request,
                     session_id |-> session_id, sent |-> <<>>]
            step == [NoTrace EXCEPT !.session_id = session_id,
                                    !.restaurant_id = request.restaurant_id,
                                    !.message = request.message]
        IN
        IF is_cancel_command(request.message)
        THEN LET cleared == clear_all(state_key, history_key, context_key, session_id)
             IN  /\ state_key' = cleared.state
                 /\ history_key' = cleared.history
                 /\ context_key' = cleared.context
                 /\ context_fn' = [context_fn EXCEPT ![session_id] = None]
                 /\ ttl_key' = touch_keys(ttl_key, session_id, {}, RecordNames)
                 /\ response' = ChatResponse("reset", RESET_REPLY, session_id,
                                             None, Null)
                 /\ access_token' = clear_access_token(access_token)
                 /\ tasks' = [tasks EXCEPT ![t] = Finished(task)]
                 /\ trace' = [step EXCEPT !.branch = "reset"]
        ELSE
        LET session_state == get_session_state(state_key, session_id)
            current_function == session_state.current_function
            conversation_history == get_conversation_history(history_key, session_id)
            cached == get_context(context_key, session_id)
            loaded == [task EXCEPT !.pc = "awaiting_oracle"] @@
                      [session_state |-> session_state,
                       conversation_history |-> conversation_history,
                       restaurant_context |-> cached]
        IN  /\ access_token' = token
            /\ UNCHANGED <<state_key, history_key, response>>
            /\ trace' = [step EXCEPT !.branch = "started"]
            /\ IF cached # EmptyDict
               THEN /\ tasks' = [tasks EXCEPT ![t] = loaded]
                    /\ UNCHANGED <<context_key, context_fn, ttl_key>>
               ELSE IF current_function \in FUNCTIONS_NEEDING_GROUPS
               THEN /\ tasks' = [tasks EXCEPT ![t] =
                                    [loaded EXCEPT !.pc = "awaiting_groups",
                                                   !.sent = <<token>>]]
                    /\ UNCHANGED <<context_key, context_fn, ttl_key>>
               ELSE LET context == [restaurant_id |-> request.restaurant_id,
                                    groups |-> <<>>]
                    IN  /\ context_key' = set_context(context_key, session_id, context)
                        /\ context_fn' = [context_fn EXCEPT
                                             ![session_id] = current_function]
                        /\ ttl_key' = touch_keys(ttl_key, session_id, {"context"}, {})
                        /\ tasks' = [tasks EXCEPT ![t] =
                                        [loaded EXCEPT !.restaurant_context = context]]

StartChat(t) ==
    /\ tasks[t].pc \in {"idle", "done"}
    /\ StartChatWith(t, TaskRequests(t))

GroupsReturned(t) ==
    /\ tasks[t].pc = "awaiting_groups"
    /\ \E groups_response \in GroupsResponses :
        LET task == tasks[t]
            context == [restaurant_id |-> task.request.restaurant_id,
                        groups |-> IF groups_response.status = "200"
                                   THEN context_groups(groups_response.groups)
                                   ELSE <<>>]
        IN  /\ context_key' = set_context(context_key, task.session_id, context)
            /\ context_fn' = [context_fn EXCEPT ![task.session_id] =
                                 task.session_state.current_function]
            /\ ttl_key' = touch_keys(ttl_key, task.session_id, {"context"}, {})
            /\ tasks' = [tasks EXCEPT ![t] =
                            [task EXCEPT !.pc = "awaiting_oracle",
                                         !.restaurant_context = context]]
            /\ trace' = [NoTrace EXCEPT !.branch = "groups_returned",
                                        !.session_id = task.session_id,
                                        !.groups_fetched = TRUE]
    /\ UNCHANGED <<state_key, history_key, access_token, response, nmsgs, registry>>

OracleReturned(t) ==
    /\ tasks[t].pc = "awaiting_oracle"
    /\ UNCHANGED <<nmsgs, registry>>
    /\ \E raw \in ConcurrentRawOutputs :
        LET task == tasks[t]
            request == task.request
            session_id == task.session_id
            current_function == task.session_state.current_function
            completion == get_completion(raw)
            llm_response == completion.value
            with_user == add_to_history(history_key, session_id, "user",
                                        request.message)
            step == [NoTrace EXCEPT !.session_id = session_id,
                                    !.restaurant_id = request.restaurant_id,
                                    !.message = request.message,
                                    !.prev_state = task.session_state,
                                    !.oracle_called = TRUE,
                                    !.raw = Some(raw),
                                    !.oracle_context = Some(task.restaurant_context)]
        IN
        IF completion.raised
        THEN /\ response' = llm_error_response(session_id, completion.error)
             /\ access_token' = clear_access_token(access_token)
             /\ tasks' = [tasks EXCEPT ![t] = Finished(task)]
             /\ trace' = [step EXCEPT !.branch = "llm_error"]
             /\ UNCHANGED <<state_key, history_key, context_key, context_fn, ttl_key>>
        ELSE IF llm_response.type = "ask_user"
        THEN LET switch == is_context_switch(current_function, llm_response)
             IN  /\ state_key' = set_session_state(state_key, session_id,
                                      llm_response.current_function,
                                      OrEmpty(llm_response.partial_arguments),
                                      OrEmpty(llm_response.missing_fields),
                                      "collecting")
                 /\ history_key' = add_to_history(with_user, session_id, "assistant",
                                                  llm_response.message)
                 /\ IF switch
                    THEN /\ context_key' = clear_context(context_key, session_id)
                         /\ context_fn' = [context_fn EXCEPT ![session_id] = None]
                         /\ ttl_key' = touch_keys(ttl_key, session_id,
                                                  {"state", "history"}, {"context"})
                    ELSE /\ UNCHANGED <<context_key, context_fn>>
                         /\ ttl_key' = touch_keys(ttl_key, session_id,
                                                  {"state", "history"}, {})
                 /\ response' = ChatResponse("ask_user", llm_response.message,
                                             session_id, None,
                                             llm_response.missing_fields)
                 /\ access_token' = clear_access_token(access_token)
                 /\ tasks' = [tasks EXCEPT ![t] = Finished(task)]
                 /\ trace' = [step EXCEPT !.branch = "ask_user",
                                          !.llm_response = Some(llm_response)]
        ELSE IF llm_response.type = "call_function"
        THEN LET function_name == llm_response.name
                 arguments == ensure_restaurant_id(OrEmpty(llm_response.arguments),
                                                   request.restaurant_id)
                 \* KeyError and TypeError are raised before the handler awaits
                 called == execute_function(function_name, arguments, "200")
                 executed == [step EXCEPT
                                !.branch = "call_function",
                                !.llm_response = Some(llm_response),
                                !.executed = Some([name |-> function_name,
                                                   arguments |-> arguments]),
                                !.exec_raised = called.raised]
             IN  IF called.raised
                 THEN LET error_msg == <<"Error executing ", function_name, ": ">>
                                           \o called.error
                      IN  /\ history_key' = add_to_history(with_user, session_id,
                                                           "assistant", error_msg)
                          /\ ttl_key' = touch_keys(ttl_key, session_id, {"history"}, {})
                          /\ response' = ChatResponse("error", error_msg, session_id,
                                                      None, Null)
                          /\ access_token' = clear_access_token(access_token)
                          /\ tasks' = [tasks EXCEPT ![t] = Finished(task)]
                          /\ trace' = executed
                          /\ UNCHANGED <<state_key, context_key, context_fn>>
                 ELSE /\ history_key' = with_user
                      /\ ttl_key' = touch_keys(ttl_key, session_id, {"history"}, {})
                      /\ tasks' = [tasks EXCEPT ![t] =
                                      [task EXCEPT !.pc = "awaiting_backend",
                                                   !.sent = Append(@, access_token)]
                                      @@ [function_name |-> function_name,
                                          arguments |-> arguments]]
                      /\ trace' = executed
                      /\ UNCHANGED <<state_key, context_key, context_fn,
                                     response, access_token>>
        ELSE /\ history_key' = with_user
             /\ ttl_key' = touch_keys(ttl_key, session_id, {"history"}, {})
             /\ response' = ChatResponse("error", UNKNOWN_TYPE_REPLY, session_id,
                                         None, Null)
             /\ access_token' = clear_access_token(access_token)
             /\ tasks' = [tasks EXCEPT ![t] = Finished(task)]
             /\ trace' = [step EXCEPT !.branch = "unknown_type",
                                      !.llm_response = Some(llm_response)]
             /\ UNCHANGED <<state_key, context_key, context_fn>>

BackendReturned(t) ==
    /\ tasks[t].pc = "awaiting_backend"
    /\ \E backend_status \in BackendStatuses :
        LET task == tasks[t]
            session_id == task.session_id
            result == execute_function(task.function_name, task.arguments,
                                       backend_status)
        IN  /\ state_key' = clear_session_state(state_key, session_id)
            /\ history_key' = add_to_history(history_key, session_id, "assistant",
                                             result.value)
            /\ context_key' = clear_context(context_key, session_id)
            /\ context_fn' = [context_fn EXCEPT ![session_id] = None]
            /\ ttl_key' = touch_keys(ttl_key, session_id, {"history"},
                                     {"state", "context"})
            /\ response' = ChatResponse("result", result.value, session_id,
                                        task.function_name, Null)
            /\ access_token' = clear_access_token(access_token)
            /\ tasks' = [tasks EXCEPT ![t] = Finished(task)]
            /\ trace' = [NoTrace EXCEPT !.branch = "backend_returned",
                                        !.session_id = session_id]
    /\ UNCHANGED <<nmsgs, registry>>

NextConcurrent ==
    \E t \in TaskIds :
        \/ StartChat(t)
        \/ GroupsReturned(t)
        \/ OracleReturned(t)
        \/ BackendReturned(t)

SpecConcurrent == InitConcurrent /\ [][NextConcurrent]_vars

----------------------------------------------------------------------------
\* Specification of long conversations: session s1 starts with a recorded
\* conversation of whole turns (a user entry followed by an assistant entry)
\* that is empty, two entries short of the cap, or at the cap, and its
\* messages are processed one at a time.

TurnsRecorded == {0, HISTORY_LIMIT - 2, HISTORY_LIMIT}

InitTurns ==
    /\ \E n \in TurnsRecorded : history_key = Replay(n)
    /\ state_key = [s \in StoreIds |-> Null]
    /\ context_key = [s \in StoreIds |-> Null]
    /\ access_token = None
    /\ context_fn = [s \in StoreIds |-> None]
    /\ response = NoResponse
    /\ trace = NoTrace
    /\ nmsgs = 0
    /\ registry = [functions |-> _functions, handlers |-> _handlers]
    /\ ttl_key = [s \in StoreIds |->
                    IF s = "s1" /\ history_key[s] # Null
                    THEN [NoKeys EXCEPT !.history = session_ttl]
                    ELSE NoKeys]
    /\ tasks = NoTasks

TurnsRawOutputs == ConcurrentRawOutputs \cup { [kind |-> "not_json"] }

ProcessChatTurns ==
    /\ nmsgs < MaxMessages
    /\ \E request \in FetchRequests, raw \in TurnsRawOutputs :
         \E uuid \in UuidsFor(request),
            groups_response \in GroupsResponsesFor(request),
            backend_status \in BackendStatusesFor(raw) :
              process_chat(request, uuid, raw, groups_response, backend_status)

NextTurns == ProcessChatTurns

SpecTurns == InitTurns /\ [][NextTurns]_vars

----------------------------------------------------------------------------
\* Specification of overlapping requests of one session: both tasks serve
\* requests for session s1, so each reads and writes the same three keys
\* while the other is waiting for the oracle or the backend.

OverlapMessages == {MSG_SOUP, MSG_NEVERMIND, MSG_CANCEL}

OverlapRequests(t) ==
    [session_id : {"s1"}, restaurant_id : {1},
     message : OverlapMessages, access_token : {TaskToken[t]}]

StartOverlap(t) ==
    /\ tasks[t].pc \in {"idle", "done"}
    /\ StartChatWith(t, OverlapRequests(t))

NextOverlap ==
    \E t \in TaskIds :
        \/ StartOverlap(t)
        \/ GroupsReturned(t)
        \/ OracleReturned(t)
        \/ BackendReturned(t)

SpecOverlap == InitConcurrent /\ [][NextOverlap]_vars

----------------------------------------------------------------------------
\* Specification of requests processed one at a time: a request starts only
\* when no other is in flight.  Requests come with a token or without one,
\* and a request can arrive while the store is down: its first
\* memory_manager call raises and process_chat leaves through its `finally`.

SequentialRequests(t) ==
    [session_id : {"s1"}, restaurant_id : {1},
     message : ConcurrentMessages, access_token : {None, TaskToken[t]}]

NoneInFlight == \A t \in TaskIds : tasks[t].pc \in {"idle", "done"}

StartSequential(t) ==
    /\ NoneInFlight
    /\ StartChatWith(t, SequentialRequests(t))

StartStoreDown(t) ==
    /\ NoneInFlight
    /\ nmsgs < MaxMessages
    /\ nmsgs' = nmsgs + 1
    /\ \E request \in SequentialRequests(t) :
          /\ access_token' = clear_access_token(token_at_entry(access_token, request))
          /\ tasks' = [tasks EXCEPT ![t] =
                          [pc |-> "done", request |-> request,
                           session_id |-> request.session_id, sent |-> <<>>]]
          /\ response' = RaisedResponse(request.session_id,
                                        "redis.exceptions.ConnectionError")
          /\ trace' = [NoTrace EXCEPT !.branch = "raised",
                                      !.session_id = request.session_id,
                                      !.message = request.message]
    /\ UNCHANGED <<state_key, history_key, context_key, context_fn, registry, ttl_key>>

NextSequential ==
    \E t \in TaskIds :
        \/ StartSequential(t)
        \/ StartStoreDown(t)
        \/ GroupsReturned(t)
        \/ OracleReturned(t)
        \/ BackendReturned(t)

SpecSequential == InitConcurrent /\ [][NextSequential]_vars

----------------------------------------------------------------------------
\* Specification of the history list alone: a conversation of up to MaxReplay
\* entries has been recorded by add_to_history, and up to MaxAppends further
\* entries are appended.

MaxReplay == 20
MaxAppends == 3

Roles == {"user", "assistant"}
Contents == {<<"soup ", "8">>, <<"Which ", "group?">>}

InitHistory ==
    /\ state_key = [s \in StoreIds |-> Null]
    /\ \E n \in 0..MaxReplay : history_key = Replay(n)
    /\ context_key = [s \in StoreIds |-> Null]
    /\ access_token = None
    /\ context_fn = [s \in StoreIds |-> None]
    /\ response = NoResponse
    /\ trace = NoTrace
    /\ nmsgs = 0
    /\ registry = [functions |-> _functions, handlers |-> _handlers]
    /\ ttl_key = [s \in StoreIds |->
                    IF history_key[s] = Null THEN NoKeys
                    ELSE [NoKeys EXCEPT !.history = session_ttl]]
    /\ tasks = NoTasks

AddToHistory ==
    /\ nmsgs < MaxAppends
    /\ \E session_id \in SessionIds, role \in Roles, content \in Contents :
          /\ history_key' = add_to_history(history_key, session_id, role, content)
          /\ ttl_key' = [ttl_key EXCEPT ![session_id].history = session_ttl]
          /\ trace' = [NoTrace EXCEPT !.branch = "add_to_history",
                                      !.session_id = session_id,
                                      !.appended = Some([role |-> role,
                                                         content |-> content])]
    /\ nmsgs' = nmsgs + 1
    /\ UNCHANGED <<state_key, context_key, access_token, context_fn, response,
                   registry, tasks>>

NextHistory == AddToHistory

SpecHistory == InitHistory /\ [][NextHistory]_vars

----------------------------------------------------------------------------
\* Properties

\* what the last call worked on
Sid == trace.session_id
Processed == trace.branch # "none"
StoredState == get_session_state(state_key, Sid)
StoredHistory == get_conversation_history(history_key, Sid)
Outcome == trace.llm_response[1]
LastEntry(h) == h[Len(h)]

\* app/services/chat_session_service.py line 133: the vocabulary of the
\* specification, as characters
cancel_keywords ==
    { <<"c","a","n","c","e","l">>,
      <<"r","e","s","e","t">>,
      <<"s","t","a","r","t"," ","o","v","e","r">>,
      <<"n","e","v","e","r","m","i","n","d">>,
      <<"f","o","r","g","e","t"," ","i","t">>,
      <<"c","l","e","a","r">> }

\* C1: after every completed process_chat call the stored session state of
\* every session has status "collecting" exactly when current_function is set.
C1_StatusIffFunction ==
    \A s \in SessionIds :
        LET st == get_session_state(state_key, s)
        IN  (st.status = "collecting") <=> (st.current_function # None)

\* C2: a message that, lower-cased and trimmed, is one of the six words of the
\* cancellation vocabulary leaves the session Idle and makes no oracle call.
C2_CancelVocabularyNoOracle ==
    (Processed /\ strip(lower(trace.message)) \in cancel_keywords)
        => /\ ~trace.oracle_called
           /\ StoredState.status = "idle"
           /\ StoredState.current_function = None

\* C3: after a cancellation message is processed the response has type
\* "reset" and the three records of the session are gone: state, history and
\* context read as their defaults.
C3_ResetClearsAllRecords ==
    /\ (Processed /\ strip(lower(trace.message)) \in CANCEL_COMMANDS)
          => (trace.branch = "reset" /\ response.type = "reset")
    /\ response.type = "reset"
          => /\ state_key[response.session_id] = Null
             /\ history_key[response.session_id] = Null
             /\ context_key[response.session_id] = Null
             /\ get_session_state(state_key, response.session_id) = default_state
             /\ get_conversation_history(history_key, response.session_id) = <<>>
             /\ get_context(context_key, response.session_id) = EmptyDict

\* C3 witness: a session that was collecting, with history and a cached
\* context, has been cancelled.
C3_Witness ==
    /\ response.type = "reset"
    /\ trace.prev_state.status = "collecting"
    /\ trace.prev_state.collected_arguments # EmptyDict
    /\ nmsgs >= 2

\* C4: on an ask_user outcome the stored state is exactly the outcome's
\* current_function, partial_arguments (or {}) and missing_fields (or []),
\* with status "collecting"; the outcome's message is the last history entry,
\* as an assistant entry; no previously collected argument survives.
C4_AskUserOverwritesState ==
    trace.branch = "ask_user"
        => /\ state_key[Sid] =
                Some([current_function |-> Outcome.current_function,
                      collected_arguments |-> OrEmpty(Outcome.partial_arguments),
                      missing_fields |-> OrEmpty(Outcome.missing_fields),
                      status |-> "collecting"])
           /\ StoredHistory # <<>>
           /\ LastEntry(StoredHistory) =
                [role |-> "assistant", content |-> Outcome.message]
           /\ DOMAIN StoredState.collected_arguments
                \subseteq DOMAIN OrEmpty(Outcome.partial_arguments)

\* C4 witness: a session that had collected an argument received an ask_user
\* outcome that does not repeat it.
C4_Witness ==
    /\ trace.branch = "ask_user"
    /\ "name" \in DOMAIN trace.prev_state.collected_arguments
    /\ "name" \notin DOMAIN OrEmpty(Outcome.partial_arguments)
    /\ StoredState.collected_arguments = EmptyDict

\* C5: once an ask_user outcome has named an operation different from the
\* stored one (the stored one may be none), the context cache is cleared
\* before the next context-dependent fetch: a message processed while a
\* needs-grounding operation is stored never reuses a context that was cached
\* before that operation became the active one.
C5_SwitchInvalidatesContext ==
    (trace.oracle_called
        /\ trace.prev_state.current_function \in FUNCTIONS_NEEDING_GROUPS
        /\ trace.context_hit)
        => trace.oracle_context_fn = trace.prev_state.current_function

\* C6: whenever a message is processed while the stored operation needs
\* grounding, the restaurant context handed to the oracle was produced by a
\* backend group fetch made for a needs-grounding operation; it is never a
\* context cached with an empty group list while Idle or on another operation.
C6_GroundedContextForOracle ==
    (trace.oracle_called
        /\ trace.prev_state.current_function \in FUNCTIONS_NEEDING_GROUPS)
        => trace.oracle_context_fn \in FUNCTIONS_NEEDING_GROUPS

\* C7: on a call_function outcome whose arguments lack restaurant_id, the
\* arguments passed to the executor contain the request's restaurant_id.
C7_RestaurantIdInjected ==
    (trace.executed # Null
        /\ "restaurant_id" \notin DOMAIN OrEmpty(Outcome.arguments))
        => /\ "restaurant_id" \in DOMAIN trace.executed[1].arguments
           /\ trace.executed[1].arguments["restaurant_id"] = trace.restaurant_id

\* C7 witness: a handler ran on arguments the oracle sent without restaurant_id.
C7_Witness ==
    /\ trace.executed # Null
    /\ ~trace.exec_raised
    /\ "restaurant_id" \notin DOMAIN OrEmpty(Outcome.arguments)
    /\ trace.restaurant_id = 2

\* C8: when the executor raises on a call_function outcome, the session is
\* back to Idle (status idle, no active operation), the error text is the
\* last history entry, as an assistant entry, and the response has type
\* "error".
C8_ExecutorErrorResetsToIdle ==
    (trace.branch = "call_function" /\ trace.exec_raised
        /\ get_handler_found(trace.executed[1].name))
        => /\ response.type = "error"
           /\ LastEntry(StoredHistory) =
                [role |-> "assistant", content |-> response.reply]
           /\ StoredState.status = "idle"
           /\ StoredState.current_function = None

\* C9: when a call_function outcome names an operation with no registered
\* handler, the response has type "error" and the session is reset to Idle:
\* no active operation and no collected arguments are stored afterwards.
C9_UnknownOperationResetsToIdle ==
    (trace.branch = "call_function"
        /\ ~get_handler_found(trace.executed[1].name))
        => /\ response.type = "error"
           /\ StoredState.current_function = None
           /\ StoredState.collected_arguments = EmptyDict

\* C10: after a call_function outcome whose executor returns normally, the
\* state record is gone (it reads as the default Idle state), the context
\* cache is gone, the history ends with the user's message followed by the
\* result as an assistant entry, and the response has type "result" and
\* carries the executed operation's name.
C10_SuccessClearsSession ==
    (trace.branch = "call_function" /\ ~trace.exec_raised)
        => /\ state_key[Sid] = Null
           /\ StoredState = default_state
           /\ context_key[Sid] = Null
           /\ Len(StoredHistory) >= 2
           /\ StoredHistory[Len(StoredHistory) - 1] =
                [role |-> "user", content |-> trace.message]
           /\ LastEntry(StoredHistory) =
                [role |-> "assistant", content |-> response.reply]
           /\ response.type = "result"
           /\ response.function = trace.executed[1].name

\* C10 witness: a session that was collecting create_menu_item, with a cached
\* context, executed it successfully.
C10_Witness ==
    /\ trace.branch = "call_function"
    /\ ~trace.exec_raised
    /\ trace.prev_state.status = "collecting"
    /\ trace.context_hit
    /\ response.function = "create_menu_item"

\* C11: when get_completion raises, the response has type "error", the
\* stored state record is what it was before the message and nothing is
\* appended to history; the history changes only in a call that obtained an
\* oracle response (or is deleted by a cancellation).
C11_OracleFailureLeavesSession ==
    [][ /\ trace'.branch = "llm_error"
            => /\ response'.type = "error"
               /\ state_key' = state_key
               /\ history_key' = history_key
        /\ (history_key' # history_key /\ trace'.branch # "reset")
            => trace'.llm_response # Null ]_vars

\* C11 witness: the oracle call failed for a session that was collecting
\* and had a history.
C11_Witness ==
    /\ trace.branch = "llm_error"
    /\ trace.raw = Some([kind |-> "http_error"])
    /\ trace.prev_state.status = "collecting"
    /\ Len(StoredHistory) = 2

\* the oracle outputs that are a well-formed outcome: a JSON object whose
\* type is ask_user or call_function
WellFormed(raw) ==
    /\ raw.kind = "json_object"
    /\ "type" \in DOMAIN raw.obj
    /\ raw.obj["type"] \in {"ask_user", "call_function"}

\* C12: for every oracle output that is not a well-formed outcome
\* (unparseable text, JSON that is not an object, an object of another type)
\* get_completion returns an ask_user fallback without raising, and the
\* response has type "ask_user", not "error".
C12_MalformedOutputFallsBack ==
    (trace.raw # Null /\ trace.raw[1].kind # "http_error"
        /\ ~WellFormed(trace.raw[1]))
        => /\ ~get_completion(trace.raw[1]).raised
           /\ trace.branch = "ask_user"
           /\ response.type = "ask_user"

\* C13: after any sequence of add_to_history calls a stored history has at
\* most 20 entries, and an append to a history of exactly 20 entries leaves
\* the former entries 2..20 followed by the new entry.
C13_HistoryKeepsLastTwenty ==
    /\ \A s \in SessionIds : Len(get_conversation_history(history_key, s)) <= 20
    /\ [][ /\ \A s \in SessionIds :
                Len(get_conversation_history(history_key', s)) <= 20
           /\ (trace'.branch = "add_to_history"
                 /\ Len(get_conversation_history(history_key, trace'.session_id)) = 20)
               => get_conversation_history(history_key', trace'.session_id)
                    = SubSeq(get_conversation_history(history_key, trace'.session_id), 2, 20)
                        \o trace'.appended ]_vars

\* C13 witness: an entry was appended to a full history, which dropped the
\* first turn of the conversation.
C13_Witness ==
    /\ trace.branch = "add_to_history"
    /\ Len(StoredHistory) = 20
    /\ StoredHistory[1] = Turn(2)
    /\ StoredHistory[20] = trace.appended[1]

\* C14: two cancellation messages in a row for a session leave the same
\* stored result both times (no state record, no history, no context: Idle
\* with no operation, no arguments, no missing fields) and both are answered
\* with type "reset".
C14_CancelTwiceSameResult ==
    [][ (trace.branch = "reset" /\ trace'.branch = "reset"
            /\ trace'.session_id = trace.session_id)
        => /\ response.type = "reset" /\ response'.type = "reset"
           /\ state_key' = state_key
           /\ history_key' = history_key
           /\ context_key' = context_key
           /\ get_session_state(state_key', trace'.session_id)
                = [current_function |-> None, collected_arguments |-> EmptyDict,
                   missing_fields |-> <<>>, status |-> "idle"]
           /\ get_conversation_history(history_key', trace'.session_id) = <<>>
           /\ get_context(context_key', trace'.session_id) = EmptyDict
           /\ context_key'[trace'.session_id] = Null ]_vars

\* C14 witness: the last two messages were both cancellations, the first of
\* them arriving after a conversation.
C14_Witness ==
    /\ nmsgs = MaxMessages + 2
    /\ trace.branch = "reset"
    /\ response.type = "reset"

\* C15: in every stored state, missing_fields holds only required parameter
\* names of the stored current_function, as the registry declares them, that
\* are not keys of collected_arguments.
C15_MissingFieldsAreRequiredAndOpen ==
    \A s \in SessionIds :
        LET stored == get_session_state(state_key, s)
            missing == {stored.missing_fields[i] :
                            i \in 1..Len(stored.missing_fields)}
        IN  missing \subseteq (required_parameters(stored.current_function)
                                  \ DOMAIN stored.collected_arguments)

\* the first message of a new session, answered by ASK_PRICE, leaves the
\* session collecting create_menu_item and is answered with type ask_user and
\* the missing field
ScenarioFirstMessage ==
    (nmsgs = 1 /\ trace.raw = Some([kind |-> "json_object", obj |-> ASK_PRICE]))
        => /\ StoredState = COLLECTING_PRICE
           /\ response.type = "ask_user"
           /\ response.missing_fields = Some(<<"price">>)

\* the second message was answered by a call of create_menu_item
ScenarioSecondMessage(call) ==
    /\ nmsgs = 2
    /\ trace.prev_state = COLLECTING_PRICE
    /\ trace.raw = Some([kind |-> "json_object", obj |-> call])

\* the call was dispatched with the oracle's arguments and the request's
\* restaurant_id, answered with type result, and the session is Idle
ScenarioDispatched(call) ==
    /\ trace.executed =
         Some([name |-> "create_menu_item",
               arguments |-> call.arguments[1]
                               @@ ("restaurant_id" :> trace.restaurant_id)])
    /\ response.type = "result"
    /\ state_key[Sid] = Null
    /\ StoredState = [current_function |-> None, collected_arguments |-> EmptyDict,
                      missing_fields |-> <<>>, status |-> "idle"]

\* C16: from a new session, a first message answered by
\* ask_user{create_menu_item, missing [price], partial {name}} leaves the
\* session Collecting and is answered with ask_user and those missing fields;
\* a second message answered by call_function{create_menu_item,
\* {name, price}} dispatches the executor with name, price and the request's
\* restaurant_id, returns type "result" and leaves the session Idle.
C16_TwoMessageScenario ==
    /\ ScenarioFirstMessage
    /\ ScenarioSecondMessage(CALL_NAME_PRICE) => ScenarioDispatched(CALL_NAME_PRICE)

\* C16 amended: the same scenario with a second message answered by
\* call_function{create_menu_item, {group_id, name, price}}, the arguments
\* the handler of create_menu_item requires.
C16_TwoMessageScenarioWithGroup ==
    /\ ScenarioFirstMessage
    /\ ScenarioSecondMessage(CALL_FULL) => ScenarioDispatched(CALL_FULL)

\* C16 witness: the second message of the scenario was answered by the call
\* with the group and the handler has run.
C16_Witness ==
    /\ ScenarioSecondMessage(CALL_FULL)
    /\ trace.branch = "call_function"
    /\ ~trace.exec_raised
    /\ response.function = "create_menu_item"

\* C17: when create_menu_item is stored and the oracle answers a message
\* with ask_user for create_menu_group, then after that message the stored
\* operation is create_menu_group with status collecting and the context
\* cache of the session is empty.
C17_SwitchToGroupClearsContext ==
    (trace.branch = "ask_user"
        /\ trace.prev_state.current_function = "create_menu_item"
        /\ Outcome.current_function = "create_menu_group")
        => /\ StoredState.current_function = "create_menu_group"
           /\ StoredState.status = "collecting"
           /\ context_key[Sid] = Null
           /\ get_context(context_key, Sid) = EmptyDict

\* C17 witness: the switch happened in a call that gave the oracle a context
\* cached for create_menu_item.
C17_Witness ==
    /\ trace.branch = "ask_user"
    /\ trace.prev_state.current_function = "create_menu_item"
    /\ trace.prev_state.status = "collecting"
    /\ Outcome.current_function = "create_menu_group"
    /\ trace.oracle_context # Null
    /\ StoredState.current_function = "create_menu_group"

\* C18: the context cache of a session is written only when it is empty (at
\* most once between two invalidations), it is empty after every executor
\* call, successful or failed, and after every change of the stored
\* operation.
C18_ContextWrittenOnceAndInvalidated ==
    [][ \A s \in SessionIds :
          /\ (context_key'[s] # context_key[s] /\ context_key'[s] # Null)
                => context_key[s] = Null
          /\ (trace'.executed # Null /\ trace'.session_id = s)
                => context_key'[s] = Null
          /\ get_session_state(state_key', s).current_function
                  # get_session_state(state_key, s).current_function
                => context_key'[s] = Null ]_vars

\* C19: registering a name that is already registered fails and leaves the
\* registry as it was; no registration replaces an entry, so every name
\* keeps the specification and the handler of its first registration.
C19_RegistrationNeverReplaces ==
    [][ /\ \A name \in DOMAIN registry.functions :
              /\ name \in DOMAIN registry'.functions
              /\ registry'.functions[name] = registry.functions[name]
        /\ \A name \in DOMAIN registry.handlers :
              /\ name \in DOMAIN registry'.handlers
              /\ registry'.handlers[name] = registry.handlers[name]
        /\ (trace'.branch = "register_function"
              /\ trace'.registered[1].name \in DOMAIN registry.functions)
            => (trace'.exec_raised /\ registry' = registry)
        /\ (trace'.branch = "register_handler"
              /\ trace'.registered[1].name \in DOMAIN registry.handlers)
            => (trace'.exec_raised /\ registry' = registry) ]_vars

\* C20: a read of a session never fails for an absent record: whichever of
\* the three records are absent, get_session_state answers the Idle default
\* for an absent state record, get_conversation_history [] for an absent
\* history and get_context {} for an absent context, and a record that is
\* present is returned as stored, whatever the other two are.
C20_AbsentRecordsReadAsDefaults ==
    trace.branch = "read"
        => LET s == trace.session_id
               got == trace.read[1]
           IN  /\ got.state = IF state_key[s] = Null
                              THEN [current_function |-> None,
                                    collected_arguments |-> EmptyDict,
                                    missing_fields |-> <<>>, status |-> "idle"]
                              ELSE state_key[s][1]
               /\ got.history = IF history_key[s] = Null THEN <<>>
                                ELSE history_key[s][1]
               /\ got.context = IF context_key[s] = Null THEN EmptyDict
                                ELSE context_key[s][1]

\* C20 witness: the records were read with the state and the context absent
\* and the history present.
C20_Witness ==
    /\ trace.branch = "read"
    /\ state_key[Sid] = Null
    /\ history_key[Sid] # Null
    /\ context_key[Sid] = Null
    /\ trace.read[1].state.status = "idle"
    /\ trace.read[1].history = <<Turn(1), Turn(2)>>

\* C21: every write of a session record restarts that record's expiry at
\* the full 3600 s, and a session expires as one: no state has the state
\* record expired while a history or a context of the same session can still
\* be read.
C21_SessionExpiresAsOne ==
    \A s \in StoreIds :
        /\ (trace.session_id = s /\ trace.branch = "ask_user")
              => ttl_key[s].state = 3600
        /\ (trace.session_id = s
              /\ trace.branch \in {"ask_user", "call_function", "unknown_type"})
              => ttl_key[s].history = 3600
        /\ "state" \in ttl_key[s].expired
              => (history_key[s] = Null /\ context_key[s] = Null)

\* C22: requests of different sessions that run concurrently share nothing
\* but the store: every backend request a task makes carries the access
\* token of the task's own request, and the token a suspended task has set
\* is not changed by a step of another session's task.
C22_TokenNotSharedAcrossSessions ==
    [][ \A t \in TaskIds :
          /\ tasks'[t].pc # "idle"
                => \A i \in 1..Len(tasks'[t].sent) :
                      tasks'[t].sent[i] = tasks'[t].request.access_token
          /\ (tasks[t].pc \in {"awaiting_groups", "awaiting_oracle", "awaiting_backend"}
                /\ tasks'[t] = tasks[t])
                => access_token' = access_token ]_vars

\* C23: a session id nothing was stored for reads as Idle; a cancellation
\* message leaves the session Idle whatever its state was; from Idle an
\* ask_user outcome that names an operation leaves the session Collecting
\* that operation.
C23_IdleAndCollectingNotAbsorbing ==
    /\ \A s \in StoreIds :
          state_key[s] = Null => get_session_state(state_key, s).status = "idle"
    /\ trace.branch = "reset"
          => /\ StoredState.status = "idle"
             /\ StoredState.current_function = None
    /\ (trace.branch = "ask_user" /\ trace.prev_state.status = "idle"
          /\ Outcome.current_function # None)
          => /\ StoredState.status = "collecting"
             /\ StoredState.current_function = Outcome.current_function

\* C23 witness: a session that went from Idle to Collecting in its first
\* messages was cancelled afterwards and is Idle again.
C23_Witness ==
    /\ nmsgs > MaxMessages
    /\ trace.branch = "reset"
    /\ trace.prev_state.status = "collecting"
    /\ trace.prev_state.current_function = "create_menu_group"
    /\ StoredState.status = "idle"

\* C24: every response carries a session id: the request's own id when the
\* request has one (a non-empty string), otherwise a generated id that starts
\* with "session-" and had no record in the store; the records the call reads
\* are those of this id, and the records and expiries of every other id are
\* left as they were.
C24_OneSessionIdPerRequest ==
    [][nmsgs' # nmsgs =>
         LET sid == response'.session_id
             req == trace'.requested_id
         IN  /\ sid = trace'.session_id
             /\ req \notin {None, ""} => sid = req
             /\ req \in {None, ""}
                   => /\ Len(sid) > 8
                      /\ SubSeq(sid, 1, 8) = "session-"
                      /\ state_key[sid] = Null
                      /\ history_key[sid] = Null
                      /\ context_key[sid] = Null
             /\ trace'.records_read # {}
                   => trace'.prev_state = get_session_state(state_key, sid)
             /\ \A s \in StoreIds \ {sid} :
                   /\ state_key'[s] = state_key[s]
                   /\ history_key'[s] = history_key[s]
                   /\ context_key'[s] = context_key[s]
                   /\ ttl_key'[s] = ttl_key[s]]_vars

\* a second request without a session id gets an id of its own, while the
\* session of the first generated id still holds its records
C24_Witness ==
    /\ trace.requested_id = None
    /\ response.session_id = "session-u2"
    /\ response.type = "ask_user"
    /\ state_key["session-u1"] # Null
    /\ state_key["session-u2"] # Null

\* C25: when the backend answers a handler's request with a status other
\* than "200" (a rejection, or the error envelope BackendClient.call builds
\* from a transport failure), the response has type "error" and the session
\* reads Idle afterwards.
C25_BackendFailureIsError ==
    (trace.backend_status # Null /\ trace.backend_status[1] # "200")
        => /\ response.type = "error"
           /\ StoredState.status = "idle"

\* C26: whenever the dispatcher calls a registered handler, the arguments
\* of the call contain every parameter the registry marks as required for
\* that function.
C26_HandlerCalledWithRequiredArguments ==
    trace.handler_calls > 0
        => required_parameters(trace.executed[1].name)
              \subseteq DOMAIN trace.executed[1].arguments

\* C27: one message makes at most one oracle request and at most one
\* handler call; a handler is called only when the oracle's outcome is
\* call_function; after a failed oracle request no second request and no
\* handler call follows, and a handler call that raised is not made again.
C27_AtMostOneOracleAndOneHandlerCall ==
    /\ trace.oracle_posts <= 1
    /\ trace.handler_calls <= 1
    /\ trace.handler_calls > 0
          => /\ trace.llm_response # Null
             /\ Outcome.type = "call_function"
    /\ trace.branch = "llm_error"
          => /\ trace.oracle_posts = 1
             /\ trace.handler_calls = 0
    /\ trace.exec_raised => trace.handler_calls <= 1
    /\ trace.branch = "reset"
          => /\ trace.oracle_posts = 0
             /\ trace.handler_calls = 0

\* the oracle answered call_function once and the one handler call raised
C27_Witness ==
    /\ trace.branch = "call_function"
    /\ trace.oracle_posts = 1
    /\ trace.handler_calls = 1
    /\ trace.exec_raised
    /\ response.type = "error"

\* C28: a message makes process_chat ask the backend for the groups only if
\* the operation stored for the session when the message arrived is
\* create_menu_item or get_menu_items and the session has no cached context;
\* with no stored operation, or another one, no backend request precedes the
\* oracle request.
C28_GroupsFetchedOnlyForGroundedOperation ==
    [][nmsgs' # nmsgs =>
         LET sid == trace'.session_id
             stored == get_session_state(state_key, sid).current_function
         IN  /\ trace'.groups_fetched
                   => /\ stored \in {"create_menu_item", "get_menu_items"}
                      /\ context_key[sid] = Null
                      /\ trace'.oracle_called
             /\ stored \notin {"create_menu_item", "get_menu_items"}
                   => ~trace'.groups_fetched]_vars

\* the cached context of a session collecting for get_menu_items was lost
\* and the next message fetched the groups again
C28_Witness ==
    /\ trace.groups_fetched
    /\ trace.prev_state.current_function = "get_menu_items"
    /\ trace.oracle_context # Null
    /\ trace.oracle_context[1].groups # <<>>

C30_OracleMessagesInOrder ==
    trace.branch = "build_messages"
        => LET messages == trace.oracle_messages[1]
               history == trace.read[1].history
               context == trace.read[1].context
               k == IF context # EmptyDict THEN 4 ELSE 3
           IN  /\ Len(messages) = k + Len(history) + 1
               /\ messages[2].role = "system"
               /\ messages[2].content[1] = "AVAILABLE FUNCTIONS:"
               /\ messages[3].role = "system"
               /\ messages[3].content[1] = "CURRENT SESSION STATE:"
               /\ messages[3].content[2] = trace.read[1].state
               /\ context # EmptyDict
                     => /\ messages[4].role = "system"
                        /\ messages[4].content[1] = "RESTAURANT CONTEXT:"
                        /\ messages[4].content[2] = context
               /\ \A i \in 1..Len(history) : messages[k + i] = history[i]
               /\ messages[Len(messages)] = [role |-> "user", content |-> trace.message]

\* three stored turns and a cached context precede the new message
C30_Witness ==
    /\ trace.branch = "build_messages"
    /\ Len(trace.read[1].history) = 3
    /\ trace.read[1].context # EmptyDict
    /\ Len(trace.oracle_messages[1]) = 8
    /\ trace.oracle_messages[1][5] = Turn(1)

\* C31: every processed message ends in a returned ChatResponse (reset,
\* ask_user, result or error); none ends in an exception raised out of
\* process_chat, whether the store, the context fetch, the oracle or the
\* handler failed.
C31_EveryMessageGetsAResponse ==
    nmsgs > 0 => response.type \in {"reset", "ask_user", "result", "error"}

\* the state record an ask_user outcome makes process_chat write
StateWrittenFor(llm_response) ==
    [current_function |-> llm_response.current_function,
     collected_arguments |-> OrEmpty(llm_response.partial_arguments),
     missing_fields |-> OrEmpty(llm_response.missing_fields),
     status |-> "collecting"]

\* C32: when requests of one session overlap, every step that changes the
\* stored state record either deletes it or replaces it by the complete
\* record of the request taking the step; the record after the last write is
\* that request's record, with no field left over from the other request.
C32_LastWriterWins ==
    [][\A s \in StoreIds :
          /\ state_key'[s] # state_key[s]
                => \/ state_key'[s] = Null
                   \/ /\ trace'.branch = "ask_user"
                      /\ trace'.session_id = s
          /\ (trace'.branch = "ask_user" /\ trace'.session_id = s)
                => state_key'[s] = Some(StateWrittenFor(trace'.llm_response[1]))]_vars

\* both requests entered while the session was idle, both were answered by
\* a question, and the record stored is the one of the request that wrote
\* last, the question for a group name
C32_Witness ==
    /\ \A t \in TaskIds :
          /\ tasks[t].pc = "done"
          /\ "session_state" \in DOMAIN tasks[t]
          /\ tasks[t].session_id = "s1"
          /\ tasks[t].session_state.status = "idle"
    /\ Len(get_conversation_history(history_key, "s1")) = 4
    /\ get_conversation_history(history_key, "s1")[2].content = ASK_MESSAGE
    /\ trace.branch = "ask_user"
    /\ state_key["s1"] = Some(StateWrittenFor(ASK_GROUP_NAME))

\* the last HISTORY_LIMIT entries of a list
KeepLast(history) ==
    IF Len(history) > HISTORY_LIMIT
    THEN SubSeq(history, Len(history) - HISTORY_LIMIT + 1, Len(history))
    ELSE history

\* the entries a step of a request appends to its session's history
EntriesAppended(step, reply) ==
    LET user == [role |-> "user", content |-> step.message]
    IN  IF step.branch = "ask_user"
        THEN <<user, [role |-> "assistant", content |-> reply]>>
        ELSE IF step.branch = "call_function" /\ step.exec_raised
        THEN <<user, [role |-> "assistant", content |-> reply]>>
        ELSE IF step.branch \in {"call_function", "unknown_type"}
        THEN <<user>>
        ELSE IF step.branch = "backend_returned"
        THEN <<[role |-> "assistant", content |-> reply]>>
        ELSE <<>>

\* C33: whether or not requests of a session overlap, a step of a request
\* whose oracle call returned appends the user message and the reply made
\* for it to whatever the history holds at that moment, and no step other
\* than a cancellation removes an entry (beyond the cap of 20): an entry
\* appended by the other request is never dropped.
C33_NoHistoryEntryLost ==
    [][\A s \in StoreIds :
          LET before == get_conversation_history(history_key, s)
              after == get_conversation_history(history_key', s)
          IN  IF trace'.session_id = s
              THEN IF trace'.branch = "reset"
                   THEN after = <<>>
                   ELSE after = KeepLast(before \o EntriesAppended(trace', response'.reply))
              ELSE after = before]_vars

\* a request's user entry was stored, the other request's question and
\* answer were appended while the first waited for the backend, and the
\* first request's result came last: all four entries are in the history
C33_Witness ==
    /\ trace.branch = "backend_returned"
    /\ response.type = "result"
    /\ LET history == get_conversation_history(history_key, "s1")
       IN  /\ Len(history) = 4
           /\ history[1] = [role |-> "user", content |-> MSG_SOUP]
           /\ history[2] = [role |-> "user", content |-> MSG_NEVERMIND]
           /\ history[3].role = "assistant"
           /\ history[4] = [role |-> "assistant", content |-> response.reply]

\* C34: a message processed for one session, whatever its branch, leaves
\* the state, history and context records of every other session as they
\* were.
C34_OtherSessionsUntouched ==
    [][\A other \in StoreIds :
          other # trace'.session_id
             => /\ state_key'[other] = state_key[other]
                /\ history_key'[other] = history_key[other]
                /\ context_key'[other] = context_key[other]]_vars

\* session s1 was cancelled while session s2 holds a state, a history and a
\* context record
C34_Witness ==
    /\ trace.session_id = "s1"
    /\ trace.branch = "reset"
    /\ state_key["s2"] # Null
    /\ history_key["s2"] # Null
    /\ context_key["s2"] # Null

\* entries alternate user, assistant, ... from a user entry, in whole turns
Alternating(history) ==
    /\ Len(history) % 2 = 0
    /\ \A i \in 1..Len(history) :
          history[i].role = IF i % 2 = 1 THEN "user" ELSE "assistant"

\* C35: with the messages of a session processed one at a time, after every
\* message the stored history has even length and alternates user,
\* assistant from a user entry; a message whose oracle call returned has
\* appended exactly its user entry followed by one assistant entry, cut to
\* the last 20 entries, and a message whose oracle call failed has appended
\* nothing.
C35_HistoryAlternates ==
    [][nmsgs' # nmsgs =>
         LET sid == trace'.session_id
             before == get_conversation_history(history_key, sid)
             after == get_conversation_history(history_key', sid)
         IN  /\ Alternating(after)
             /\ trace'.llm_response # Null
                   => after = KeepLast(before \o
                                 << [role |-> "user", content |-> trace'.message],
                                    [role |-> "assistant", content |-> response'.reply] >>)
             /\ trace'.branch = "llm_error" => after = before]_vars

\* two messages were processed on top of twenty recorded entries: the
\* history is at the cap and starts with the fifth recorded entry
C35_Witness ==
    /\ nmsgs = 2
    /\ trace.branch = "call_function"
    /\ trace.exec_raised
    /\ Len(get_conversation_history(history_key, "s1")) = HISTORY_LIMIT
    /\ get_conversation_history(history_key, "s1")[1] = Turn(5)

\* C36: the restaurant_id a handler is called with is the restaurant_id of
\* the request, also when the oracle's arguments carry another one.
C36_HandlerGetsRequestRestaurant ==
    (trace.handler_calls > 0 /\ "restaurant_id" \in DOMAIN trace.executed[1].arguments)
        => trace.executed[1].arguments["restaurant_id"] = trace.restaurant_id

\* C37: while no request is in flight the backend client holds no token,
\* whether the last request returned a response or raised; and with
\* requests processed one at a time, every backend request of a call
\* carried the token of that call's own request (none when it had none).
C37_TokenClearedAfterEveryRequest ==
    /\ NoneInFlight => access_token = None
    /\ \A t \in TaskIds :
          "sent" \in DOMAIN tasks[t]
             => \A i \in 1..Len(tasks[t].sent) :
                   tasks[t].sent[i] = tasks[t].request.access_token

\* after a request with a token has finished, a request without a token
\* has fetched the groups and called a handler, both without a token
C37_Witness ==
    /\ nmsgs = 2
    /\ tasks["a"].pc = "done"
    /\ tasks["a"].request.access_token = "tok"
    /\ tasks["b"].pc = "done"
    /\ tasks["b"].request.access_token = None
    /\ tasks["b"].sent = <<None, None>>
    /\ access_token = None

\* C38: every value get_completion returns has type ask_user or
\* call_function, so no message is answered by the branch of process_chat
\* for an unknown response type.
C38_UnknownTypeBranchUnreachable ==
    /\ trace.llm_response # Null
          => Outcome.type \in {"ask_user", "call_function"}
    /\ trace.branch # "unknown_type"
    /\ response.reply # UNKNOWN_TYPE_REPLY

\* the oracle sent an object of type "chat" and the user was asked what
\* they would like to do
C38_Witness ==
    /\ trace.raw # Null
    /\ trace.raw[1].kind = "json_object"
    /\ DOMAIN trace.raw[1].obj = {"type"}
    /\ trace.raw[1].obj["type"] = "chat"
    /\ trace.branch = "ask_user"
    /\ response.reply = FALLBACK_TYPE_MESSAGE

\* C39: once every tool module has been imported, the names of the
\* specifications get_function_specs returns are exactly the names for which
\* get_handler succeeds.
C39_AdvertisedIffExecutable ==
    Imported = ToolModules
        => /\ \A spec \in get_function_specs(registry) :
                 get_handler_succeeds(registry, spec.name)
           /\ \A name \in DOMAIN registry.handlers :
                 \E spec \in get_function_specs(registry) : spec.name = name

\* all seven modules are imported: 26 operations are advertised, among
\* them create_menu_group, and its handler is found
C39_Witness ==
    /\ Imported = ToolModules
    /\ Cardinality(get_function_specs(registry)) = 26
    /\ \E spec \in get_function_specs(registry) : spec.name = "create_menu_group"
    /\ get_handler_succeeds(registry, "create_menu_group")
    /\ ~get_handler_succeeds(registry, "no_such_function")
====
